---- MODULE Spec2Model ----
(***************************************************************************)
(* The cross-shard join planner of radon (package planner): the plan tree  *)
(* of MergeNode leaves and JoinNode internals, and the pushdown passes     *)
(*   setOtherJoin, pushFilter, pushEqualCmpr, calcRoute, pushSelectExprs,  *)
(*   buildQuery                                                            *)
(* run on the root of the tree in that order.                              *)
(***************************************************************************)
EXTENDS Integers, Sequences, FiniteSets, TLC

VARIABLES
    pc,        \* position of the planner driver in the pass sequence
    root,      \* the node the driver currently holds as root of the plan tree
    joins,     \* JoinNode objects, by node id
    merges,    \* MergeNode objects, by node id
    tbInfos,   \* TableInfo objects, by table name
    fcol,      \* the ColName object filterTuple.col points to, by filter id
    onArgs,    \* the ON-clause residual filters of each join (setOtherJoin's argument)
    whereIn,   \* the filters handed to pushFilter
    eqIn,      \* the joinTuples handed to pushEqualCmpr
    fieldsIn,  \* the selectTuples handed to pushSelectExprs
    sel,       \* the sqlparser.Select object: its GroupBy and OrderBy lists
    havingIn,  \* the filters handed to pushHaving
    orderIn,   \* the ORDER BY list the parser put into sel
    err,       \* the error the last pass returned
    oracleErr  \* the last error the Route Oracle returned to the planner

vars == <<pc, root, joins, merges, tbInfos, fcol, onArgs, whereIn, eqIn, fieldsIn, sel,
          havingIn, orderIn, err, oracleErr>>

-----------------------------------------------------------------------------
(* Bounds of the model. *)

\* longest WHERE filter list handed to pushFilter
MaxWhere == 2
\* longest list of WHERE equalities handed to pushEqualCmpr
MaxEqs == 2
\* longest select list handed to pushSelectExprs
MaxFields == 2
\* longest GROUP BY list of the select statement
MaxGroups == 1
\* longest HAVING filter list handed to pushHaving
MaxHaving == 2
\* longest ORDER BY list of the select statement
MaxOrders == 2
\* most optional clauses (filters, equalities, ON residual lists, an unsharded
\* table, fields of a select list other than the plain one) one query carries
MaxClauses == 2

-----------------------------------------------------------------------------
(* Node identities.  A MergeNode is created per table, a JoinNode per join. *)

Nil == 0
RootJoin == 5
SubJoin == 4
JoinIds == {SubJoin, RootJoin}
MergeIds == {1, 2, 3}
TableOfMerge == <<"t1", "t2", "t3">>
MergeOfTable == [t \in {"t1", "t2", "t3"} |-> CHOOSE m \in MergeIds : TableOfMerge[m] = t]

IsJoin(n) == n \in JoinIds
IsMerge(n) == n \in MergeIds

NoErr == "nil"
RouteErr == "router: fail to resolve the literal"

\* JoinStrategy
Cartesian == "Cartesian"
SortMerge == "SortMerge"

-----------------------------------------------------------------------------
(* Expressions (sqlparser.Expr).  A column-literal predicate holds its     *)
(* column through the filter's ColName object, fcol[fid], which buildQuery *)
(* rewrites in place.                                                      *)

Col(t, c) == [k |-> "col", t |-> t, c |-> c]
Lit(v) == [k |-> "lit", v |-> v]
\* a non-column expression over the tables tbs, e.g. t1.a + 1
Fn(tbs) == [k |-> "fn", tbs |-> tbs]
\* an aggregate over the tables tbs, e.g. SUM(t1.a)
Agg(tbs) == [k |-> "agg", tbs |-> tbs]
Cmp(op, l, r) == [k |-> "cmp", op |-> op, l |-> l, r |-> r]
IsNullExpr(e) == [k |-> "isnull", e |-> e]
\* a predicate that is neither a comparison nor an IS test, e.g. (x OR y)
Pred(tbs) == [k |-> "pred", tbs |-> tbs]
ColLit(fid, op, v) == [k |-> "collit", fid |-> fid, op |-> op, v |-> v]
Aliased(e, as) == [k |-> "aliased", e |-> e, as |-> as]

SeqToSet(s) == {s[i] : i \in 1..Len(s)}

Contains(s, e) == \E i \in 1..Len(s) : s[i] = e

\* the expression as SQL text is generated from it now
Render(fc, e) ==
    IF e.k = "collit" THEN Cmp(e.op, fc[e.fid], Lit(e.v)) ELSE e

RenderAll(fc, s) == [i \in 1..Len(s) |-> Render(fc, s[i])]

-----------------------------------------------------------------------------
(* Tuples the parser hands to the planner. *)

NoVal == "nil"
NoCol == Col("", "")

\* filterTuple{expr, referTables, col, val}; id is the identity of the tuple's
\* ColName object
FilterTuple(expr, referTables, hasCol, col, val) ==
    [id |-> 0, expr |-> expr, referTables |-> referTables,
     hasCol |-> hasCol, col0 |-> col, val |-> val]

\* t.c = v
EqLit(t, c, v) == FilterTuple(ColLit(0, "=", v), <<t>>, TRUE, Col(t, c), v)
\* t.c = v in an ON clause, whose ColName object no pass rewrites
OnEqLit(t, c, v) == FilterTuple(Cmp("=", Col(t, c), Lit(v)), <<t>>, TRUE, Col(t, c), v)
\* t.c > 5
GtLit(t, c) == FilterTuple(ColLit(0, ">", "5"), <<t>>, TRUE, Col(t, c), NoVal)
\* t.c IS NULL
IsNullF(t, c) == FilterTuple(IsNullExpr(Col(t, c)), <<t>>, FALSE, NoCol, NoVal)
\* t.a + 1 = 2
ScalarF(t) == FilterTuple(Cmp("=", Fn(<<t>>), Lit("2")), <<t>>, FALSE, NoCol, NoVal)
\* 1 = 1
ConstF == FilterTuple(Cmp("=", Lit("1"), Lit("1")), <<>>, FALSE, NoCol, NoVal)

\* tables an expression refers to
getTbInExpr(e) ==
    IF e.k = "col" THEN <<e.t>>
    ELSE IF e.k = "fn" THEN e.tbs
    ELSE <<>>

\* l op r over two or more tables
CrossF(op, l, r) ==
    FilterTuple(Cmp(op, l, r), getTbInExpr(l) \o getTbInExpr(r), FALSE, NoCol, NoVal)
\* (x OR y) over the tables tbs
PredF(tbs) == FilterTuple(Pred(tbs), tbs, FALSE, NoCol, NoVal)

\* the i-th filter of a list: its ColName object is object i
Stamp(f, i) ==
    [f EXCEPT !.id = i,
              !.expr = IF f.expr.k = "collit" THEN [f.expr EXCEPT !.fid = i] ELSE f.expr]

StampAll(fs) == [i \in 1..Len(fs) |-> Stamp(fs[i], i)]

\* selectTuple{expr, field, referTables}
SelectTuple(expr, field, referTables) ==
    [expr |-> expr, field |-> field, referTables |-> referTables]
\* t.c in the select list
SelCol(t, c) == SelectTuple(Aliased(Col(t, c), ""), c, <<t>>)
\* t.c AS as in the select list
SelAs(t, c, as) == SelectTuple(Aliased(Col(t, c), as), as, <<t>>)

\* joinTuple{expr, left, right, referTables}
JoinTuple(l, r) ==
    [expr |-> Cmp("=", l, r), left |-> l, right |-> r, referTables |-> <<l.t, r.t>>]

-----------------------------------------------------------------------------
(* Plan nodes. *)

NoOtherJoin == [set |-> FALSE, noTables |-> <<>>, others |-> <<>>, left |-> <<>>, right |-> <<>>]

EmptyMap == [i \in {} |-> <<>>]

\* what calcRoute saw of a routed child (lmn, rmn) when it decided on the collapse
NoMerge == [isMerge |-> FALSE, id |-> Nil, backend |-> "", shardCount |-> 0, routeLen |-> 0,
            index |-> -1]
SeenChild(W, n) ==
    IF IsMerge(n)
    THEN [isMerge |-> TRUE, id |-> n, backend |-> W.merges[n].backend,
          shardCount |-> W.merges[n].shardCount, routeLen |-> W.merges[n].routeLen,
          index |-> W.merges[n].index]
    ELSE [NoMerge EXCEPT !.id = n]
NotRouted == [done |-> FALSE, lmn |-> NoMerge, rmn |-> NoMerge, ret |-> Nil, mn |-> NoMerge]

newJoinNode(Left, Right, parent, hasJoinExpr, isLeft, joinOn, referredTables) ==
    [Left |-> Left, Right |-> Right, parent |-> parent, hasParen |-> FALSE,
     Strategy |-> Cartesian,
     hasJoinExpr |-> hasJoinExpr,
     On |-> [i \in 1..Len(joinOn) |-> joinOn[i].expr],
     referredTables |-> referredTables,
     children |-> <<>>,
     Cols |-> <<>>, fields |-> <<>>,
     joinOn |-> joinOn,
     LeftKeys |-> <<>>, RightKeys |-> <<>>, CmpFilter |-> <<>>,
     LeftUnique |-> FALSE, RightUnique |-> FALSE,
     tableFilter |-> <<>>, otherFilter |-> <<>>, noTableFilter |-> <<>>,
     otherJoinOn |-> NoOtherJoin, rightNull |-> <<>>,
     IsLeftJoin |-> hasJoinExpr /\ isLeft,
     HasRightFilter |-> FALSE,
     LeftTmpCols |-> <<>>, RightTmpCols |-> <<>>,
     keyFilters |-> EmptyMap,
     routed |-> NotRouted]

newMergeNode(tb, parent, shardKey) ==
    [referredTables |-> {tb}, parent |-> parent, hasParen |-> FALSE,
     index |-> -1,
     shardCount |-> IF shardKey = "" THEN 0 ELSE 1,
     backend |-> "", routeLen |-> 0,
     filters |-> <<>>, fields |-> <<>>, OrderBy |-> <<>>, having |-> <<>>,
     Querys |-> <<>>]

newTableInfo(tb, shardKey) ==
    [database |-> "db", tableName |-> tb, shardKey |-> shardKey,
     parent |-> MergeOfTable[tb]]

-----------------------------------------------------------------------------
(* The planner's view of the heap: the passes are functions from one heap  *)
(* to the next.  err is the error a pass returns, ret the node it returns,  *)
(* find and index the boolean and the position a helper returns, idx the   *)
(* counter handleOthers shares with its helpers through a pointer.         *)

World(js, ms, ts, fc, oe) ==
    [joins |-> js, merges |-> ms, tbInfos |-> ts, fcol |-> fc, err |-> NoErr, ret |-> Nil,
     find |-> FALSE, index |-> -1, idx |-> 0, oracleErr |-> oe]

getReferredTables(W, n) ==
    IF IsJoin(n) THEN W.joins[n].referredTables ELSE W.merges[n].referredTables

getFields(W, n) ==
    IF IsJoin(n) THEN W.joins[n].fields ELSE W.merges[n].fields

\* every table of referTables is one of tbs
checkTbInNode(referTables, tbs) ==
    \A i \in 1..Len(referTables) : referTables[i] \in tbs

AppendNew(s, e) == IF Contains(s, e) THEN s ELSE Append(s, e)

\* MergeNode.setWhereFilter: filters[filter] = 0, a set keyed by the expression
MergeSetWhereFilter(W, m, e) ==
    [W EXCEPT !.merges[m].filters = AppendNew(@, e)]

\* JoinNode.setWhereFilter
JoinSetWhereFilter(W, j, e) ==
    [W EXCEPT !.joins[j].otherFilter = Append(@, e)]

setWhereFilter(W, n, e) ==
    IF IsJoin(n) THEN JoinSetWhereFilter(W, n, e) ELSE MergeSetWhereFilter(W, n, e)

RECURSIVE AppendAllNew(_, _)
AppendAllNew(s, es) ==
    IF es = <<>> THEN s ELSE AppendAllNew(AppendNew(s, Head(es)), Tail(es))

\* MergeNode.setNoTableFilter
MergeSetNoTableFilter(W, m, es) ==
    [W EXCEPT !.merges[m].filters = AppendAllNew(@, es)]

\* JoinNode.setNoTableFilter
JoinSetNoTableFilter(W, j, es) ==
    [W EXCEPT !.joins[j].noTableFilter = @ \o es]

setNoTableFilter(W, n, es) ==
    IF IsJoin(n) THEN JoinSetNoTableFilter(W, n, es) ELSE MergeSetNoTableFilter(W, n, es)

\* the lowest common ancestor of p1 and p2 under h, Nil when neither is under h
RECURSIVE findLCA(_, _, _, _)
findLCA(W, h, p1, p2) ==
    IF p1 = h \/ p2 = h THEN h
    ELSE IF ~IsJoin(h) THEN Nil
    ELSE LET pl == findLCA(W, W.joins[h].Left, p1, p2)
             pr == findLCA(W, W.joins[h].Right, p1, p2)
         IN  IF pl # Nil /\ pr # Nil THEN h
             ELSE IF pl = Nil THEN pr
             ELSE pl

\* the loop "for _, tb := range referTables" that folds the owners' LCA under h
RECURSIVE ownersLCA(_, _, _, _, _)
ownersLCA(W, h, referTables, i, parent) ==
    IF i > Len(referTables) THEN parent
    ELSE LET p == W.tbInfos[referTables[i]].parent
         IN  IF parent = Nil THEN ownersLCA(W, h, referTables, i + 1, p)
             ELSE IF parent # p THEN ownersLCA(W, h, referTables, i + 1, findLCA(W, h, parent, p))
             ELSE ownersLCA(W, h, referTables, i + 1, parent)

\* nodes of the tree under n, n included
RECURSIVE TreeNodes(_, _)
TreeNodes(js, n) ==
    IF n = Nil THEN {}
    ELSE IF IsJoin(n) THEN {n} \cup TreeNodes(js, js[n].Left) \cup TreeNodes(js, js[n].Right)
    ELSE {n}

TreeJoins(js, n) == {x \in TreeNodes(js, n) : IsJoin(x)}
TreeMerges(js, n) == {x \in TreeNodes(js, n) : IsMerge(x)}

-----------------------------------------------------------------------------
(* FROM construction: the trees the builder hands to the passes. *)

Shapes == {"two", "leftdeep", "rightdeep"}
JoinKinds == {"comma", "inner", "left"}
ShardKeys == {"a", ""}

TablesOf(shape) == IF shape = "two" THEN {"t1", "t2"} ELSE {"t1", "t2", "t3"}
JoinsOf(shape) == IF shape = "two" THEN {RootJoin} ELSE JoinIds

LeftOf(shape, j) ==
    IF j = RootJoin THEN (IF shape = "leftdeep" THEN SubJoin ELSE 1)
    ELSE (IF shape = "leftdeep" THEN 1 ELSE 2)
RightOf(shape, j) ==
    IF j = RootJoin
    THEN (IF shape = "two" THEN 2 ELSE IF shape = "leftdeep" THEN 3 ELSE SubJoin)
    ELSE (IF shape = "leftdeep" THEN 2 ELSE 3)

RECURSIVE ShapeTables(_, _)
ShapeTables(shape, n) ==
    IF IsMerge(n) THEN {TableOfMerge[n]}
    ELSE ShapeTables(shape, LeftOf(shape, n)) \cup ShapeTables(shape, RightOf(shape, n))

ParentOf(shape, n) ==
    IF n = RootJoin THEN Nil
    ELSE IF n = SubJoin THEN RootJoin
    ELSE IF shape = "two" THEN RootJoin
    ELSE IF n \in {LeftOf(shape, SubJoin), RightOf(shape, SubJoin)} THEN SubJoin
    ELSE RootJoin

\* the equi-keys an ON clause between the tables L and R may hold
OnKeys(L, R) == {<<JoinTuple(Col(l, "a"), Col(r, "a"))>> : l \in L, r \in R}

MinTable(S) == CHOOSE t \in S : \A u \in S : MergeOfTable[t] <= MergeOfTable[u]

\* the residual predicates a LEFT JOIN's ON clause may hold besides its key
OnResiduals(L, R) ==
    LET l == MinTable(L)
        r == MinTable(R)
    IN  { <<>>,
          <<ConstF, OnEqLit(l, "b", "1"), OnEqLit(r, "b", "1")>>,
          <<CrossF(">", Col(l, "b"), Col(r, "b"))>>,
          <<OnEqLit(l, "b", "1")>> }
        \cup (IF Cardinality(R) > 1
              THEN {<<PredF(<<r, CHOOSE x \in R : x # r>>)>>}
              ELSE {})

-----------------------------------------------------------------------------
(* setOtherJoin: split a LEFT JOIN's ON residuals by the side they refer to. *)

TmpcAlias(i) == "tmpc_" \o ToString(i)
TmpoAlias(i) == "tmpo_" \o ToString(i)

RECURSIVE setOtherJoinLoop(_, _, _, _, _)
setOtherJoinLoop(W, j, filters, n, i) ==
    IF n > Len(filters) THEN W
    ELSE LET filter == filters[n]
             oj == W.joins[j].otherJoinOn
         IN  IF Len(filter.referTables) = 0
             THEN setOtherJoinLoop([W EXCEPT !.joins[j].otherJoinOn.noTables = Append(@, filter.expr)],
                                   j, filters, n + 1, i)
             ELSE IF checkTbInNode(filter.referTables, getReferredTables(W, W.joins[j].Left))
             THEN LET alias == TmpcAlias(i)
                      field == SelectTuple(Aliased(filter.expr, alias), alias, filter.referTables)
                  IN  setOtherJoinLoop([W EXCEPT !.joins[j].otherJoinOn.left = Append(@, field)],
                                       j, filters, n + 1, i + 1)
             ELSE IF checkTbInNode(filter.referTables, getReferredTables(W, W.joins[j].Right))
             THEN setOtherJoinLoop([W EXCEPT !.joins[j].otherJoinOn.right = Append(@, filter)],
                                   j, filters, n + 1, i)
             ELSE setOtherJoinLoop([W EXCEPT !.joins[j].otherJoinOn.others = Append(@, filter.expr)],
                                   j, filters, n + 1, i)

setOtherJoin(W, j, filters) ==
    setOtherJoinLoop([W EXCEPT !.joins[j].otherJoinOn = [NoOtherJoin EXCEPT !.set = TRUE]],
                     j, filters, 1, 0)

-----------------------------------------------------------------------------
(* The Route Oracle. *)

\* router.GetIndex(database, table, literal)
GetIndex(tbInfo, val) ==
    IF val = "KErr" THEN [index |-> 0, err |-> RouteErr]
    ELSE IF val = "K1" THEN [index |-> 1, err |-> NoErr]
    ELSE [index |-> 0, err |-> NoErr]

\* the column col is the column shardKey of the table tb
nameMatch(col, tb, shardKey) ==
    col.c = shardKey /\ (col.t = "" \/ col.t = tb)

-----------------------------------------------------------------------------
(* pushFilter *)

\* the filter is an IS NULL test on tables of tbs
checkIsWithNull(filter, tbs) ==
    checkTbInNode(filter.referTables, tbs) /\ filter.expr.k = "isnull"

nullExprOf(filter) == [expr |-> filter.expr.e, referTables |-> filter.referTables]

\* lines 162-176: a filter on one table
pushFilterOneTable(W, j, filter) ==
    LET tb == filter.referTables[1]
        tbInfo == W.tbInfos[tb]
    IN  IF ~filter.hasCol
        THEN MergeSetWhereFilter(W, tbInfo.parent, filter.expr)
        ELSE LET W1 == [W EXCEPT !.joins[j].tableFilter = Append(@, filter)]
             IN  IF /\ W1.merges[tbInfo.parent].index = -1
                    /\ filter.val # NoVal
                    /\ tbInfo.shardKey # ""
                    /\ nameMatch(W1.fcol[filter.id], tb, tbInfo.shardKey)
                 THEN LET r == GetIndex(tbInfo, filter.val)
                      IN  [W1 EXCEPT !.merges[tbInfo.parent].index = r.index, !.err = r.err,
                                     !.oracleErr = IF r.err # NoErr THEN r.err ELSE @]
                 ELSE W1

\* lines 177-190: a filter on several tables
pushFilterManyTables(W, j, filter) ==
    setWhereFilter(W, ownersLCA(W, j, filter.referTables, 1, Nil), filter.expr)

\* the test of lines 191-198 on the first table of the filter alone
setHasRightFilterFirst(W, j, filter, rightTbs) ==
    IF /\ W.joins[j].IsLeftJoin
       /\ ~W.joins[j].HasRightFilter
       /\ filter.referTables[1] \in rightTbs
    THEN [W EXCEPT !.joins[j].HasRightFilter = TRUE]
    ELSE W

\* lines 191-198
setHasRightFilter(W, j, filter, rightTbs) ==
    IF /\ W.joins[j].IsLeftJoin
       /\ ~W.joins[j].HasRightFilter
       /\ \E i \in 1..Len(filter.referTables) : filter.referTables[i] \in rightTbs
    THEN [W EXCEPT !.joins[j].HasRightFilter = TRUE]
    ELSE W

\* one turn of the loop of pushFilter
pushFilterStep(W, j, filter, rightTbs) ==
    IF Len(filter.referTables) = 0
    THEN [W EXCEPT !.joins[j].noTableFilter = Append(@, filter.expr)]
    ELSE IF W.joins[j].IsLeftJoin /\ checkIsWithNull(filter, rightTbs)
    THEN [W EXCEPT !.joins[j].rightNull = Append(@, nullExprOf(filter))]
    ELSE LET W1 == IF Len(filter.referTables) = 1
                   THEN pushFilterOneTable(W, j, filter)
                   ELSE pushFilterManyTables(W, j, filter)
         IN  IF W1.err # NoErr THEN W1
             ELSE setHasRightFilter(W1, j, filter, rightTbs)

RECURSIVE pushFilterLoop(_, _, _, _, _)
pushFilterLoop(W, j, filters, n, rightTbs) ==
    IF n > Len(filters) THEN W
    ELSE LET W1 == pushFilterStep(W, j, filters[n], rightTbs)
         IN  IF W1.err # NoErr THEN W1
             ELSE pushFilterLoop(W1, j, filters, n + 1, rightTbs)

pushFilter(W, j, filters) ==
    pushFilterLoop(W, j, filters, 1, getReferredTables(W, W.joins[j].Right))

-----------------------------------------------------------------------------
(* Inputs of the passes. *)

\* at most one table of the query is unsharded
ShardCfgs(shape) ==
    {sk \in [TablesOf(shape) -> ShardKeys] : Cardinality({t \in TablesOf(shape) : sk[t] = ""}) <= 1}

KeysFor(shape, j, kind) ==
    IF kind = "comma" THEN {<<>>}
    ELSE OnKeys(ShapeTables(shape, LeftOf(shape, j)), ShapeTables(shape, RightOf(shape, j)))

ResidualsFor(shape, j, kind) ==
    IF kind = "left"
    THEN OnResiduals(ShapeTables(shape, LeftOf(shape, j)), ShapeTables(shape, RightOf(shape, j)))
    ELSE {<<>>}

\* the select list of a plain query
DefaultFields == <<SelCol("t1", "a")>>

FieldsCost(fields) == IF fields = <<>> \/ fields = DefaultFields THEN 0 ELSE Len(fields)

\* optional clauses of the query so far
ClausesUsed ==
    Cardinality({j \in DOMAIN onArgs : onArgs[j] # <<>>})
    + (IF \E t \in DOMAIN tbInfos : tbInfos[t].shardKey = "" THEN 1 ELSE 0)
    + Len(whereIn) + Len(eqIn)
    + FieldsCost(fieldsIn)
    + Len(sel.GroupBy) + Len(havingIn) + Len(orderIn)

ClausesLeft == MaxClauses - ClausesUsed

\* sequences over S of length at most n, without repetition
RECURSIVE SeqsUpTo(_, _)
SeqsUpTo(S, n) ==
    IF n <= 0 THEN {<<>>}
    ELSE LET shorter == SeqsUpTo(S, n - 1)
         IN  shorter \cup {Append(q, x) : q \in {r \in shorter : Len(r) = n - 1},
                                          x \in S}

NoRepeat(q) == \A i, k \in 1..Len(q) : i # k => q[i] # q[k]

Min(a, b) == IF a < b THEN a ELSE b

\* the WHERE filters the parser may hand to pushFilter
WhereFilters(T) ==
    {EqLit(t, "a", v) : t \in T, v \in {"K0", "KErr"}}
    \cup {EqLit("t1", "a", "K1"), GtLit("t1", "a"), ScalarF("t1"), ConstF}
    \cup {IsNullF(t, "b") : t \in T}
    \cup {CrossF(">", Col("t1", "b"), Col("t2", "b")),
          CrossF(">", Col("t2", "b"), Col("t1", "b")),
          CrossF(">", Fn(<<"t1">>), Col("t2", "b")),
          CrossF(">", Fn(<<"t1", "t2">>), Lit("5")),
          PredF(<<"t1", "t2">>)}
    \cup (IF "t3" \in T
          THEN {CrossF(">", Col("t1", "b"), Col("t3", "b")),
                CrossF(">", Col("t3", "b"), Col("t2", "b"))}
          ELSE {})

\* the WHERE equalities between two tables the parser may hand to pushEqualCmpr
WhereEquals(T) ==
    {JoinTuple(Col("t1", "a"), Col("t2", "a")),
     JoinTuple(Col("t2", "a"), Col("t1", "a")),
     JoinTuple(Col("t1", "a"), Col("t2", "b")),
     JoinTuple(Col("t1", "b"), Col("t2", "b"))}
    \cup (IF "t3" \in T
          THEN {JoinTuple(Col("t2", "a"), Col("t3", "a")),
                JoinTuple(Col("t1", "a"), Col("t3", "a")),
                JoinTuple(Col("t3", "b"), Col("t1", "b"))}
          ELSE {})

EqualLists(T, n) == {q \in SeqsUpTo(WhereEquals(T), n) : NoRepeat(q)}

\* the select expressions the parser may hand to pushSelectExprs
SelectFields(T) ==
    {SelCol(t, "a") : t \in T}
    \cup {SelAs("t1", "b", "a"), SelCol("t2", "b"),
          SelectTuple(Aliased(Lit("1"), ""), "1", <<>>),
          SelectTuple(Aliased(Agg(<<"t1">>), ""), "sum(t1.a)", <<"t1">>),
          SelectTuple(Aliased(Fn(<<"t1", "t2">>), ""), "t1.a + t2.a", <<"t1", "t2">>)}

FieldLists(T, n) ==
    {DefaultFields} \cup {q \in SeqsUpTo(SelectFields(T), n) : Len(q) >= 1 /\ NoRepeat(q)}

\* the parser's verdict on the select list
HasAggregates(fields) == \E i \in 1..Len(fields) : fields[i].expr.e.k = "agg"

\* the GROUP BY lists of a query without aggregates
GroupLists(n) ==
    {q \in {<<>>, <<Col("t1", "a")>>, <<Col("t2", "b")>>} : Len(q) <= n}

\* the HAVING predicates the parser may hand to pushHaving
HavingFilters(T) ==
    {ConstF, PredF(<<"t1", "t2">>)}
    \cup {ScalarF(t) : t \in T}
    \cup (IF "t3" \in T THEN {PredF(<<"t2", "t3">>)} ELSE {})

HavingLists(T, n) == {q \in SeqsUpTo(HavingFilters(T), n) : NoRepeat(q)}

\* the ORDER BY entries of the select statement
Orders ==
    {[Expr |-> Col("t1", "a"), Direction |-> "asc"],
     [Expr |-> Col("t1", "a"), Direction |-> "desc"],
     [Expr |-> Col("", "b"), Direction |-> "desc"],
     [Expr |-> Col("t2", "b"), Direction |-> "asc"],
     [Expr |-> Col("t9", "a"), Direction |-> "asc"],
     [Expr |-> Fn(<<"t1">>), Direction |-> "asc"]}

OrderLists(n) == {q \in SeqsUpTo(Orders, n) : NoRepeat(q)}

WhereLists(T, n) == {StampAll(q) : q \in {r \in SeqsUpTo(WhereFilters(T), n) : NoRepeat(r)}}

-----------------------------------------------------------------------------
(* The state after FROM construction. *)

InitTree(shape, kind, keys, resid, sk) ==
    /\ pc = "from"
    /\ root = RootJoin
    /\ joins = [j \in JoinsOf(shape) |->
                  newJoinNode(LeftOf(shape, j), RightOf(shape, j), ParentOf(shape, j),
                              kind[j] # "comma", kind[j] = "left", keys[j],
                              ShapeTables(shape, j))]
    /\ merges = [m \in {MergeOfTable[t] : t \in TablesOf(shape)} |->
                   newMergeNode(TableOfMerge[m], ParentOf(shape, m), sk[TableOfMerge[m]])]
    /\ tbInfos = [t \in TablesOf(shape) |-> newTableInfo(t, sk[t])]
    /\ fcol = <<>>
    /\ onArgs = resid
    /\ whereIn = <<>>
    /\ eqIn = <<>>
    /\ fieldsIn = <<>>
    /\ sel = [GroupBy |-> <<>>, OrderBy |-> <<>>]
    /\ havingIn = <<>>
    /\ orderIn = <<>>
    /\ err = NoErr
    /\ oracleErr = NoErr

Init ==
    \E shape \in Shapes :
    \E k5 \in JoinKinds, k4 \in (IF shape = "two" THEN {"comma"} ELSE JoinKinds) :
    \E on5 \in KeysFor(shape, RootJoin, k5) :
    \E on4 \in (IF shape = "two" THEN {<<>>} ELSE KeysFor(shape, SubJoin, k4)) :
    \E r5 \in ResidualsFor(shape, RootJoin, k5) :
    \E r4 \in (IF shape = "two" THEN {<<>>} ELSE ResidualsFor(shape, SubJoin, k4)) :
    \E sk \in ShardCfgs(shape) :
        /\ InitTree(shape,
                    [j \in JoinsOf(shape) |-> IF j = RootJoin THEN k5 ELSE k4],
                    [j \in JoinsOf(shape) |-> IF j = RootJoin THEN on5 ELSE on4],
                    [j \in JoinsOf(shape) |-> IF j = RootJoin THEN r5 ELSE r4],
                    sk)
        /\ ClausesLeft >= 0

-----------------------------------------------------------------------------
(* Collapsing two MergeNodes into one. *)

\* both columns are the shard keys of their tables, which are sharded alike
isSameShard(W, lcol, rcol) ==
    /\ W.tbInfos[lcol.t].shardKey # ""
    /\ W.tbInfos[lcol.t].shardKey = lcol.c
    /\ W.tbInfos[rcol.t].shardKey # ""
    /\ W.tbInfos[rcol.t].shardKey = rcol.c

\* mergeRoutes(lmn, rmn, ...): lmn survives and takes over the tables of rmn
mergeRoutes(W, lmn, rmn) ==
    LET L == W.merges[lmn]
        R == W.merges[rmn]
    IN  [W EXCEPT !.merges[lmn].referredTables = L.referredTables \cup R.referredTables,
                  !.merges[lmn].filters = AppendAllNew(L.filters, R.filters),
                  !.merges[lmn].shardCount = L.shardCount + R.shardCount,
                  !.merges[lmn].index = IF L.index = -1 THEN R.index ELSE L.index,
                  !.tbInfos = [t \in DOMAIN W.tbInfos |->
                                 IF t \in R.referredTables
                                 THEN [W.tbInfos[t] EXCEPT !.parent = lmn]
                                 ELSE W.tbInfos[t]]]

setParent(W, n, p) ==
    IF IsJoin(n) THEN [W EXCEPT !.joins[n].parent = p] ELSE [W EXCEPT !.merges[n].parent = p]

setParenthese(W, n, hasParen) ==
    IF IsJoin(n) THEN [W EXCEPT !.joins[n].hasParen = hasParen]
    ELSE [W EXCEPT !.merges[n].hasParen = hasParen]

RECURSIVE setWhereFilters(_, _, _)
setWhereFilters(W, n, es) ==
    IF es = <<>> THEN W ELSE setWhereFilters(setWhereFilter(W, n, Head(es)), n, Tail(es))

ExprsOf(tuples) == [i \in 1..Len(tuples) |-> tuples[i].expr]

-----------------------------------------------------------------------------
(* pushEqualCmpr *)

\* the equality with its left column in lpn and its right column in rpn
checkJoinOn(W, lpn, rpn, join) ==
    IF join.left.t \in getReferredTables(W, lpn)
    THEN join
    ELSE [join EXCEPT !.left = join.right, !.right = join.left]

\* MergeNode.pushEqualCmpr: every equality is a WHERE of the merge
MergePushEqualCmpr(W, m, joinTuples) ==
    [setWhereFilters(W, m, ExprsOf(joinTuples)) EXCEPT !.ret = m]

\* the collapse that makes WHERE filters of the joinOn of every join, one with
\* an ON clause included
collapseEqualWithOn(W, node, join) ==
    LET N == W.joins[node]
        mn == N.Left
        W1 == mergeRoutes(W, N.Left, N.Right)
        W2 == setParenthese(setParent(W1, mn, N.parent), mn, N.hasParen)
        W3 == setWhereFilters(W2, mn, ExprsOf(N.tableFilter))
        W4 == setWhereFilters(W3, mn, N.otherFilter)
        W5 == setWhereFilters(W4, mn, N.noTableFilter)
        W6 == setWhereFilters(W5, mn, ExprsOf(N.joinOn))
    IN  setWhereFilter(W6, mn, join.expr)

\* lines 323-342: node collapses into the merge of its two children
collapseEqual(W, node, join) ==
    LET N == W.joins[node]
        mn == N.Left
        W1 == mergeRoutes(W, N.Left, N.Right)
        W2 == setParenthese(setParent(W1, mn, N.parent), mn, N.hasParen)
        W3 == setWhereFilters(W2, mn, ExprsOf(N.tableFilter))
        W4 == setWhereFilters(W3, mn, N.otherFilter)
        W5 == setWhereFilters(W4, mn, N.noTableFilter)
        W6 == IF ~N.hasJoinExpr THEN setWhereFilters(W5, mn, ExprsOf(N.joinOn)) ELSE W5
    IN  setWhereFilter(W6, mn, join.expr)

\* the merge always put into the left slot of node's parent
replaceInParentLeft(W, node, mn) ==
    [W EXCEPT !.joins[W.joins[node].parent].Left = mn]

\* lines 347-352: the merge takes the slot of node in node's parent
replaceInParent(W, node, mn) ==
    LET p == W.joins[node].parent
    IN  IF W.joins[p].Left = node
        THEN [W EXCEPT !.joins[p].Left = mn]
        ELSE [W EXCEPT !.joins[p].Right = mn]

\* the equality made a join key of every join, a LEFT JOIN included
keepEqualAsKey(W, node, join) ==
    [W EXCEPT !.joins[node].joinOn = Append(@, join),
              !.joins[node].On = IF W.joins[node].hasJoinExpr
                                 THEN Append(@, join.expr) ELSE @]

\* lines 357-367: the equality stays on the join
keepEqual(W, node, join) ==
    IF W.joins[node].IsLeftJoin
    THEN JoinSetWhereFilter(W, node, join.expr)
    ELSE [W EXCEPT !.joins[node].joinOn = Append(@, join),
                   !.joins[node].On = IF W.joins[node].hasJoinExpr
                                      THEN Append(@, join.expr) ELSE @]

RECURSIVE pushEqualCmprLoop(_, _, _, _)
pushEqualCmprLoop(W, j, joinTuples, n) ==
    IF n > Len(joinTuples) THEN [W EXCEPT !.ret = j]
    ELSE LET joinFilter == joinTuples[n]
             ltb == W.tbInfos[joinFilter.referTables[1]]
             rtb == W.tbInfos[joinFilter.referTables[2]]
             parent == findLCA(W, j, ltb.parent, rtb.parent)
         IN  IF IsMerge(parent)
             THEN pushEqualCmprLoop(MergeSetWhereFilter(W, parent, joinFilter.expr),
                                    j, joinTuples, n + 1)
             ELSE IF IsJoin(parent)
             THEN LET N == W.joins[parent]
                      join == checkJoinOn(W, N.Left, N.Right, joinFilter)
                  IN  IF /\ IsMerge(N.Left)
                         /\ IsMerge(N.Right)
                         /\ isSameShard(W, join.left, join.right)
                      THEN LET W1 == collapseEqual(W, parent, join)
                           IN  IF N.parent = Nil
                               THEN MergePushEqualCmpr(W1, N.Left,
                                        SubSeq(joinTuples, n + 1, Len(joinTuples)))
                               ELSE pushEqualCmprLoop(replaceInParent(W1, parent, N.Left),
                                                      j, joinTuples, n + 1)
                      ELSE pushEqualCmprLoop(keepEqual(W, parent, join), j, joinTuples, n + 1)
             ELSE pushEqualCmprLoop(W, j, joinTuples, n + 1)

pushEqualCmpr(W, n, joinTuples) ==
    IF IsJoin(n) THEN pushEqualCmprLoop(W, n, joinTuples, 1)
    ELSE MergePushEqualCmpr(W, n, joinTuples)

-----------------------------------------------------------------------------
(* calcRoute *)

Backends == <<"backend0", "backend1">>
\* shards a table that is not routed to one shard is read from
NumShards == 2

\* MergeNode.calcRoute: the backend follows from the shard index bound so far
MergeCalcRoute(W, m) ==
    LET M == W.merges[m]
    IN  IF M.shardCount = 0 THEN [W EXCEPT !.ret = m]
        ELSE IF M.index >= 0
        THEN [W EXCEPT !.merges[m].backend = Backends[M.index + 1],
                       !.merges[m].routeLen = 1, !.ret = m]
        ELSE [W EXCEPT !.merges[m].routeLen = NumShards, !.ret = m]

\* first position of joinOn whose left (right) column is table.field, 0 if none
KeyPos(joinOn, onLeft, table, field) ==
    LET hits == {i \in 1..Len(joinOn) :
                    LET c == IF onLeft THEN joinOn[i].left ELSE joinOn[i].right
                    IN  c.t = table /\ c.c = field}
    IN  IF hits = {} THEN 0 ELSE CHOOSE i \in hits : \A k \in hits : i <= k

AddKeyFilter(keyFilters, i, filter) ==
    IF i \in DOMAIN keyFilters
    THEN [keyFilters EXCEPT ![i] = Append(@, filter)]
    ELSE [k \in DOMAIN keyFilters \cup {i} |->
            IF k = i THEN <<filter>> ELSE keyFilters[k]]

\* lines 439-446 and 460-467: the literal also routes the other side of the key;
\* the error of GetIndex is dropped
routeOtherSide(W, filter, other) ==
    LET tbInfo == W.tbInfos[other.t]
    IN  IF /\ filter.val # NoVal
           /\ W.merges[tbInfo.parent].index = -1
           /\ tbInfo.shardKey = other.c
        THEN LET r == GetIndex(tbInfo, filter.val)
             IN  [W EXCEPT !.merges[tbInfo.parent].index = r.index,
                           !.oracleErr = IF r.err # NoErr THEN r.err ELSE @]
        ELSE W

RECURSIVE buildKeyFilter(_, _, _, _)
buildKeyFilter(W, j, filter, isFind) ==
    LET J == W.joins[j]
        table == W.fcol[filter.id].t
        field == W.fcol[filter.id].c
        onLeft == filter.referTables[1] \in getReferredTables(W, J.Left)
        i == KeyPos(J.joinOn, onLeft, table, field)
        find == i # 0
        W1 == IF find
              THEN routeOtherSide(
                      [W EXCEPT !.joins[j].keyFilters = AddKeyFilter(@, i, filter)],
                      filter,
                      IF onLeft THEN J.joinOn[i].right ELSE J.joinOn[i].left)
              ELSE W
        child == IF onLeft THEN J.Left ELSE J.Right
    IN  IF IsJoin(child)
        THEN buildKeyFilter(W1, child, filter, find \/ isFind)
        ELSE [W1 EXCEPT !.find = find \/ isFind]

\* lines 376-381
RECURSIVE routeTableFilters(_, _, _)
routeTableFilters(W, j, n) ==
    IF n > Len(W.joins[j].tableFilter) THEN W
    ELSE LET filter == W.joins[j].tableFilter[n]
             W1 == buildKeyFilter(W, j, filter, FALSE)
         IN  routeTableFilters(
                 IF W1.find THEN W1
                 ELSE MergeSetWhereFilter(W1, W1.tbInfos[filter.referTables[1]].parent,
                                          filter.expr),
                 j, n + 1)

\* the filters of keyFilters, by key
RECURSIVE KeyFilterExprs(_, _)
KeyFilterExprs(keyFilters, keys) ==
    IF keys = {} THEN <<>>
    ELSE LET i == CHOOSE k \in keys : \A x \in keys : k <= x
         IN  ExprsOf(keyFilters[i]) \o KeyFilterExprs(keyFilters, keys \ {i})

\* lines 390-418: the join collapses into the merge of its routed children
collapseRoute(W, j) ==
    LET J == W.joins[j]
        lmn == J.Left
        rmn == J.Right
        W0 == IF W.merges[lmn].shardCount = 0
              THEN [W EXCEPT !.merges[lmn].backend = W.merges[rmn].backend,
                             !.merges[lmn].routeLen = W.merges[rmn].routeLen,
                             !.merges[lmn].index = W.merges[rmn].index]
              ELSE W
        W1 == mergeRoutes(W0, lmn, rmn)
        W2 == setParenthese(setParent(W1, lmn, J.parent), lmn, J.hasParen)
        W3 == setWhereFilters(W2, lmn, J.otherFilter)
        W4 == setWhereFilters(W3, lmn, KeyFilterExprs(J.keyFilters, DOMAIN J.keyFilters))
        W5 == setWhereFilters(W4, lmn, J.noTableFilter)
        W6 == IF ~J.hasJoinExpr /\ Len(J.joinOn) > 0
              THEN setWhereFilters(W5, lmn, ExprsOf(J.joinOn)) ELSE W5
    IN  [W6 EXCEPT !.ret = lmn]

\* the test of line 392 without its last disjunct
sameRouteRight(L, R) ==
    \/ L.backend # "" /\ L.backend = R.backend
    \/ R.shardCount = 0

\* line 392
sameRoute(L, R) ==
    \/ L.backend # "" /\ L.backend = R.backend
    \/ R.shardCount = 0
    \/ L.shardCount = 0

RECURSIVE calcRoute(_, _)
calcRoute(W, n) ==
    IF IsMerge(n) THEN MergeCalcRoute(W, n)
    ELSE LET \* lines 389-422, W3 being the tree with both children routed
             decide(W3) ==
                 LET collapse(W4) ==
                         [W4 EXCEPT !.joins[n].routed =
                             [done |-> TRUE,
                              lmn |-> SeenChild(W3, W3.joins[n].Left),
                              rmn |-> SeenChild(W3, W3.joins[n].Right),
                              ret |-> W4.ret,
                              mn |-> SeenChild(W4, W4.ret)]]
                 IN  IF W3.err # NoErr THEN [W3 EXCEPT !.ret = n]
                     ELSE IF /\ IsMerge(W3.joins[n].Left)
                             /\ IsMerge(W3.joins[n].Right)
                             /\ sameRoute(W3.merges[W3.joins[n].Left],
                                          W3.merges[W3.joins[n].Right])
                     THEN collapse(collapseRoute(W3, n))
                     ELSE collapse([W3 EXCEPT !.ret = n])
             \* lines 385-387, Wr being the world the right child's calcRoute left
             right(Wr) == decide([Wr EXCEPT !.joins[n].Right = Wr.ret])
             \* lines 382-384, Wl being the world the left child's calcRoute left
             left(Wl) ==
                 IF Wl.err # NoErr THEN [Wl EXCEPT !.joins[n].Left = Wl.ret, !.ret = n]
                 ELSE right(calcRoute([Wl EXCEPT !.joins[n].Left = Wl.ret], Wl.joins[n].Right))
             first(W1) == left(calcRoute(W1, W1.joins[n].Left))
         IN  first(routeTableFilters(W, n, 1))

-----------------------------------------------------------------------------
(* pushSelectExprs *)

AggrErr == "unsupported: cross-shard.query.with.aggregates"
ExprErr == "unsupported: expr.in.cross-shard.join"
ClauseErr == "unsupported: clause.in.cross-shard.join"
OnClauseErr == "unsupported: on.clause.in.cross-shard.join"

\* MergeNode.pushSelectExpr: the field becomes the last column of the merge
MergePushSelectExpr(W, m, field) ==
    [W EXCEPT !.merges[m].fields = Append(@, field),
              !.index = Len(W.merges[m].fields),
              !.err = NoErr]

\* the left entry without the offset that keeps it away from 0
ColsEntryFromZero(toLeft, index) == IF toLeft THEN -index ELSE index + 1

\* lines 622 and 628: the entry of Cols for column index of the left (right) child
ColsEntry(toLeft, index) == IF toLeft THEN -index - 1 ELSE index + 1

\* lines 615-636
RECURSIVE pushSelectExpr(_, _, _)
pushSelectExpr(W, n, field) ==
    IF IsMerge(n) THEN MergePushSelectExpr(W, n, field)
    ELSE LET J == W.joins[n]
             toLeft == checkTbInNode(field.referTables, getReferredTables(W, J.Left))
             toRight == checkTbInNode(field.referTables, getReferredTables(W, J.Right))
             \* lines 619-634, after the child has taken the field
             pushed(W1) ==
                 IF W1.err # NoErr THEN [W1 EXCEPT !.index = -1]
                 ELSE [W1 EXCEPT
                         !.joins[n].Cols = Append(@, ColsEntry(toLeft, W1.index)),
                         !.joins[n].fields = Append(@, field),
                         !.index = Len(W1.joins[n].fields)]
         IN  IF toLeft \/ toRight
             THEN pushed(pushSelectExpr(W, IF toLeft THEN J.Left ELSE J.Right, field))
             ELSE [W EXCEPT !.index = -1, !.err = ExprErr]

\* position (from 0) of the first field of tuples that is the column table.field,
\* -1 if there is none
FieldIndex(tuples, table, field) ==
    LET hits == {i \in 1..Len(tuples) :
                    /\ Len(tuples[i].referTables) = 1
                    /\ table = tuples[i].referTables[1]
                    /\ field = tuples[i].field}
    IN  IF hits = {} THEN -1 ELSE (CHOOSE i \in hits : \A k \in hits : i <= k) - 1

AscOrder(col) == [Expr |-> col, Direction |-> "asc"]

\* buildOrderBy ordering a MergeNode only by the keys it had to add
buildOrderByAdded(W, col, node) ==
    LET found == FieldIndex(getFields(W, node), col.t, col.c)
        order(W1) ==
            IF IsMerge(node)
            THEN [W1 EXCEPT !.merges[node].OrderBy = Append(@, AscOrder(col))]
            ELSE W1
    IN  IF found # -1 THEN [W EXCEPT !.index = found]
        ELSE order([pushSelectExpr(W, node, SelectTuple(Aliased(col, ""), col.c, <<col.t>>))
                       EXCEPT !.err = W.err])

\* lines 668-697; the key is returned in index
buildOrderBy(W, col, node) ==
    LET found == FieldIndex(getFields(W, node), col.t, col.c)
        \* lines 688-695
        order(W1) ==
            IF IsMerge(node)
            THEN [W1 EXCEPT !.merges[node].OrderBy = Append(@, AscOrder(col))]
            ELSE W1
    IN  order(IF found = -1
              THEN [pushSelectExpr(W, node, SelectTuple(Aliased(col, ""), col.c, <<col.t>>))
                       EXCEPT !.err = W.err]
              ELSE [W EXCEPT !.index = found])

JoinKey(col, index) == [Field |-> col.c, Table |-> col.t, Index |-> index]

\* lines 653-665: one turn of the loop of handleJoinOn
handleJoinOnKey(W, j, join) ==
    LET lok == IsMerge(W.joins[j].Left)
        rok == IsMerge(W.joins[j].Right)
        \* lines 654-659
        left(Wl) ==
            LET leftKey == JoinKey(join.left, Wl.index)
            IN  [Wl EXCEPT
                   !.joins[j].LeftUnique =
                       IF lok /\ ~@ THEN leftKey.Field = Wl.tbInfos[leftKey.Table].shardKey
                       ELSE @,
                   !.joins[j].LeftKeys = Append(@, leftKey)]
        \* lines 660-664
        right(Wr) ==
            LET rightKey == JoinKey(join.right, Wr.index)
            IN  [Wr EXCEPT
                   !.joins[j].RightUnique =
                       IF rok /\ ~@ THEN rightKey.Field = Wr.tbInfos[rightKey.Table].shardKey
                       ELSE @,
                   !.joins[j].RightKeys = Append(@, rightKey)]
        rightOf(Wl1) == right(buildOrderBy(Wl1, join.right, Wl1.joins[j].Right))
    IN  rightOf(left(buildOrderBy(W, join.left, W.joins[j].Left)))

RECURSIVE handleJoinOnLoop(_, _, _)
handleJoinOnLoop(W, j, n) ==
    IF n > Len(W.joins[j].joinOn) THEN W
    ELSE handleJoinOnLoop(handleJoinOnKey(W, j, W.joins[j].joinOn[n]), j, n + 1)

\* lines 639-666
RECURSIVE handleJoinOn(_, _)
handleJoinOn(W, j) ==
    LET \* lines 645-651
        right(W1) ==
            handleJoinOnLoop(
                IF IsMerge(W1.joins[j].Right) THEN W1 ELSE handleJoinOn(W1, W1.joins[j].Right),
                j, 1)
    IN  right(IF IsMerge(W.joins[j].Left) THEN W ELSE handleJoinOn(W, W.joins[j].Left))

\* lines 582-613; the position is returned in index
pushOtherFilter(W, expr, node, tbs) ==
    LET found == IF expr.k = "col" THEN FieldIndex(getFields(W, node), expr.t, expr.c) ELSE -1
        alias == TmpoAlias(W.idx)
        \* lines 606-610
        counted(W1) == IF W1.err # NoErr THEN W1 ELSE [W1 EXCEPT !.idx = @ + 1]
    IN  IF found # -1 THEN [W EXCEPT !.index = found]
        ELSE counted(pushSelectExpr(W, node, SelectTuple(Aliased(expr, alias), alias, tbs)))

IsComparison(e) == e.k = "cmp"

Comparison(l, r, op, exchange) ==
    [Left |-> l, Right |-> r, Operator |-> op, Exchange |-> exchange]

\* lines 543-576: one turn of the loop of pushOtherFilters
pushOtherFiltersStep(W, j, expr) ==
    IF ~IsComparison(expr) THEN [W EXCEPT !.err = ClauseErr]
    ELSE LET left == getTbInExpr(expr.l)
             right == getTbInExpr(expr.r)
             J == W.joins[j]
             ltb == getReferredTables(W, J.Left)
             rtb == getReferredTables(W, J.Right)
             straight == checkTbInNode(left, ltb) /\ checkTbInNode(right, rtb)
             crossed == checkTbInNode(left, rtb) /\ checkTbInNode(right, ltb)
             compared(lidx, Wr) ==
                 IF Wr.err # NoErr THEN Wr
                 ELSE [Wr EXCEPT !.joins[j].CmpFilter =
                          Append(@, Comparison(lidx, Wr.index, expr.op, ~straight))]
             onRight(Wl) ==
                 IF Wl.err # NoErr THEN Wl
                 ELSE compared(Wl.index,
                               IF straight
                               THEN pushOtherFilter(Wl, expr.r, J.Right, right)
                               ELSE pushOtherFilter(Wl, expr.l, J.Right, left))
         IN  IF ~straight /\ ~crossed THEN [W EXCEPT !.err = ClauseErr]
             ELSE onRight(IF straight
                          THEN pushOtherFilter(W, expr.l, J.Left, left)
                          ELSE pushOtherFilter(W, expr.r, J.Left, right))

RECURSIVE pushOtherFilters(_, _, _, _)
pushOtherFilters(W, j, filters, n) ==
    IF n > Len(filters) THEN W
    ELSE LET next(W1) == IF W1.err # NoErr THEN W1
                         ELSE pushOtherFilters(W1, j, filters, n + 1)
         IN  next(pushOtherFiltersStep(W, j, filters[n]))

\* lines 529-538
RECURSIVE pushNullExprs(_, _, _)
pushNullExprs(W, j, n) ==
    IF n > Len(W.joins[j].rightNull) THEN W
    ELSE LET tuple == W.joins[j].rightNull[n]
             next(W1) ==
                 IF W1.err # NoErr THEN W1
                 ELSE pushNullExprs([W1 EXCEPT !.joins[j].RightTmpCols = Append(@, W1.index)],
                                    j, n + 1)
         IN  next(pushOtherFilter(W, tuple.expr, W.joins[j].Right, tuple.referTables))

\* lines 270-278
RECURSIVE pushOtherJoinLeft(_, _, _)
pushOtherJoinLeft(W, j, n) ==
    IF n > Len(W.joins[j].otherJoinOn.left) THEN W
    ELSE LET next(W1) ==
                 IF W1.err # NoErr THEN W1
                 ELSE pushOtherJoinLeft(
                          [W1 EXCEPT !.joins[j].LeftTmpCols = Append(@, W1.index)], j, n + 1)
         IN  next(pushSelectExpr(W, W.joins[j].Left, W.joins[j].otherJoinOn.left[n]))

\* lines 279-300
RECURSIVE pushOtherJoinRight(_, _, _)
pushOtherJoinRight(W, j, n) ==
    IF n > Len(W.joins[j].otherJoinOn.right) THEN W
    ELSE LET filter == W.joins[j].otherJoinOn.right[n]
             parent == ownersLCA(W, W.joins[j].Right, filter.referTables, 1, Nil)
         IN  IF IsMerge(parent)
             THEN pushOtherJoinRight(MergeSetWhereFilter(W, parent, filter.expr), j, n + 1)
             ELSE [W EXCEPT !.err = OnClauseErr]

\* lines 260-303
pushOtherJoin(W, j) ==
    LET oj == W.joins[j].otherJoinOn
        \* lines 279-300
        rights(W3) == IF W3.err # NoErr THEN W3 ELSE pushOtherJoinRight(W3, j, 1)
        \* lines 267-278
        lefts(W1) ==
            IF W1.err # NoErr THEN W1
            ELSE rights(pushOtherJoinLeft(
                            IF Len(oj.noTables) > 0
                            THEN setNoTableFilter(W1, W1.joins[j].Right, oj.noTables)
                            ELSE W1,
                            j, 1))
    IN  IF ~oj.set THEN W
        ELSE lefts(IF Len(oj.others) > 0 THEN pushOtherFilters(W, j, oj.others, 1) ELSE W)

\* lines 502-526
RECURSIVE handleOthers(_, _)
handleOthers(W, j) ==
    LET \* line 525
        others(W4) == IF W4.err # NoErr THEN W4
                      ELSE pushOtherFilters(W4, j, W4.joins[j].otherFilter, 1)
        \* lines 521-523
        nulls(W3) == IF W3.err # NoErr THEN W3 ELSE others(pushNullExprs(W3, j, 1))
        \* lines 516-519
        joinOn(W2) == IF W2.err # NoErr THEN W2
                      ELSE nulls(pushOtherJoin([W2 EXCEPT !.idx = 0], j))
        \* lines 509-513
        right(W1) ==
            IF W1.err # NoErr THEN W1
            ELSE joinOn(IF IsJoin(W1.joins[j].Right) THEN handleOthers(W1, W1.joins[j].Right)
                        ELSE W1)
    IN  right(IF IsJoin(W.joins[j].Left) THEN handleOthers(W, W.joins[j].Left) ELSE W)

\* lines 491-495
RECURSIVE pushFields(_, _, _, _)
pushFields(W, n, fields, i) ==
    IF i > Len(fields) THEN W
    ELSE LET next(W1) == IF W1.err # NoErr THEN W1 ELSE pushFields(W1, n, fields, i + 1)
         IN  next(pushSelectExpr(W, n, fields[i]))

\* AggregatePlan of a query without aggregates: it holds the GROUP BY columns
AggregatePlan(groups) == [typ |-> "Aggregate", groups |-> groups]

\* lines 480-499
JoinPushSelectExprs(W, j, fields, groups, hasAggregates) ==
    IF hasAggregates THEN [W EXCEPT !.err = AggrErr]
    ELSE LET rest(W1) == IF W1.err # NoErr THEN W1 ELSE handleOthers(handleJoinOn(W1, j), j)
         IN  rest(pushFields(
                      IF Len(groups) > 0
                      THEN [W EXCEPT !.joins[j].children = Append(@, AggregatePlan(groups))]
                      ELSE W,
                      j, fields, 1))

\* MergeNode.pushSelectExprs: the select list goes to the backend as it is
MergePushSelectExprs(W, m, fields) ==
    [W EXCEPT !.merges[m].fields = @ \o fields]

pushSelectExprs(W, n, fields, groups, hasAggregates) ==
    IF IsJoin(n) THEN JoinPushSelectExprs(W, n, fields, groups, hasAggregates)
    ELSE MergePushSelectExprs(W, n, fields)

-----------------------------------------------------------------------------
(* pushHaving *)

HavingErr == "unsupported: havings.in.cross-shard.join"

\* sel.AddHaving on the select of a MergeNode
AddHaving(W, m, e) == [W EXCEPT !.merges[m].having = Append(@, e)]

\* MergeNode.pushHaving: every predicate goes to the HAVING of the merge
RECURSIVE MergePushHaving(_, _, _, _)
MergePushHaving(W, m, havings, i) ==
    IF i > Len(havings) THEN W
    ELSE MergePushHaving(AddHaving(W, m, havings[i].expr), m, havings, i + 1)

\* the owner of the first table of the filter, the others not looked at
havingParentFirst(W, j, filter) == W.tbInfos[filter.referTables[1]].parent

\* lines 709-719
havingParent(W, j, filter) == ownersLCA(W, j, filter.referTables, 1, Nil)

\* lines 700-730
RECURSIVE pushHaving(_, _, _, _)
pushHaving(W, n, havings, i) ==
    IF IsMerge(n) THEN MergePushHaving(W, n, havings, i)
    ELSE IF i > Len(havings) THEN W
    ELSE LET filter == havings[i]
             parent == havingParent(W, n, filter)
             \* lines 703-704: the errors of the children are not looked at
             both(W1) == [pushHaving(pushHaving(W1, W1.joins[n].Left, <<filter>>, 1),
                                     W1.joins[n].Right, <<filter>>, 1)
                             EXCEPT !.err = W1.err]
         IN  IF Len(filter.referTables) = 0
             THEN pushHaving(both(W), n, havings, i + 1)
             ELSE IF Len(filter.referTables) = 1
             THEN pushHaving(AddHaving(W, W.tbInfos[filter.referTables[1]].parent, filter.expr),
                             n, havings, i + 1)
             ELSE IF IsMerge(parent)
             THEN pushHaving(AddHaving(W, parent, filter.expr), n, havings, i + 1)
             ELSE [W EXCEPT !.err = HavingErr]

-----------------------------------------------------------------------------
(* pushOrderBy and the OrderByPlan (orderby_plan.go) *)

ASC == "ASC"
DESC == "DESC"

\* OrderBy{Field, Table, Direction}
OrderBy(field, table, direction) ==
    [Field |-> field, Table |-> table, Direction |-> direction]

\* orderby_plan.go lines 74-79
DirectionOf(direction) ==
    IF direction = "desc" THEN DESC
    ELSE IF direction = "asc" THEN ASC
    ELSE ""

OrderExprErr == "unsupported: orderby:expr"
OrderTableErr(table, field) ==
    "unsupported: unknow.table.in.order.by.field[" \o table \o "." \o field \o "]"
OrderFieldErr(field) == "unsupported: orderby[" \o field \o "].should.in.select.list"

\* the column table.field (any table when table is "") is a field of tuples
checkInTuple(field, table, tuples) ==
    \E i \in 1..Len(tuples) :
        /\ tuples[i].field = field
        /\ table = "" \/ tuples[i].referTables = <<table>>

\* OrderByPlan{tuples, tbInfos, OrderBys}
NewOrderByPlan(tuples, tbs) ==
    [typ |-> "Orderby", tuples |-> tuples, tbInfos |-> tbs, OrderBys |-> <<>>, err |-> NoErr]

\* orderby_plan.go lines 68-97: the plan after analyze, err being what it returns
RECURSIVE analyze(_, _, _)
analyze(p, order, n) ==
    IF n > Len(order) THEN p
    ELSE LET o == order[n]
             orderBy == OrderBy(o.Expr.c, o.Expr.t, DirectionOf(o.Direction))
         IN  IF o.Expr.k # "col" THEN [p EXCEPT !.err = OrderExprErr]
             ELSE IF orderBy.Table # "" /\ orderBy.Table \notin p.tbInfos
             THEN [p EXCEPT !.err = OrderTableErr(orderBy.Table, orderBy.Field)]
             ELSE IF ~checkInTuple(orderBy.Field, orderBy.Table, p.tuples)
             THEN [p EXCEPT !.err = OrderFieldErr(orderBy.Field)]
             ELSE analyze([p EXCEPT !.OrderBys = Append(@, orderBy)], order, n + 1)

\* the ordering kept as it is, a GROUP BY not promoted
KeepOrderBy(orderBy, groupBy) == orderBy

\* lines 734-741: without an ORDER BY the GROUP BY columns are the ordering
PromoteGroupBy(orderBy, groupBy) ==
    IF Len(orderBy) = 0
    THEN [i \in 1..Len(groupBy) |-> AscOrder(groupBy[i])]
    ELSE orderBy

\* lines 743-751; S is the select statement as lines 734-741 left it
JoinPushOrderBy(W, j, S, fields) ==
    LET \* lines 745-748
        add(orderPlan) ==
            IF orderPlan.err # NoErr THEN [W EXCEPT !.err = orderPlan.err]
            ELSE [W EXCEPT !.joins[j].children =
                     Append(@, [typ |-> orderPlan.typ, OrderBys |-> orderPlan.OrderBys])]
    IN  IF Len(S.OrderBy) > 0
        THEN add(analyze(NewOrderByPlan(fields, W.joins[j].referredTables), S.OrderBy, 1))
        ELSE W

\* MergeNode.pushOrderBy: the ordering goes to the backend with the query
MergePushOrderBy(W, m, S) ==
    [W EXCEPT !.merges[m].OrderBy = @ \o S.OrderBy]

\* what pushOrderBy leaves of the select statement
SelectOf(n, S) ==
    IF IsJoin(n) THEN [S EXCEPT !.OrderBy = PromoteGroupBy(S.OrderBy, S.GroupBy)] ELSE S

pushOrderBy(W, n, S, fields) ==
    IF IsJoin(n) THEN JoinPushOrderBy(W, n, SelectOf(n, S), fields)
    ELSE MergePushOrderBy(W, n, S)

-----------------------------------------------------------------------------
(* buildQuery *)

\* MergeNode.buildQuery: the SQL text of the merge is generated
MergeBuildQuery(W, m) ==
    [W EXCEPT !.merges[m].Querys =
        <<[where |-> RenderAll(W.fcol, W.merges[m].filters),
           exprs |-> ExprsOf(W.merges[m].fields),
           orderBy |-> W.merges[m].OrderBy]>>]

\* the filters of one key attached as they stand, their column not rewritten
RECURSIVE attachKeyFiltersAsIs(_, _, _, _)
attachKeyFiltersAsIs(W, key, filters, n) ==
    IF n > Len(filters) THEN W
    ELSE attachKeyFiltersAsIs(
            [W EXCEPT !.merges[W.tbInfos[key.Table].parent].filters =
                          AppendNew(@, filters[n].expr)],
            key, filters, n + 1)

\* lines 788-792 and 801-805: the filters of one key are rewritten to the key
\* column and attached to the merge owning it
RECURSIVE attachKeyFilters(_, _, _, _)
attachKeyFilters(W, key, filters, n) ==
    IF n > Len(filters) THEN W
    ELSE attachKeyFilters(
            [W EXCEPT !.fcol[filters[n].id] = Col(key.Table, key.Field),
                      !.merges[W.tbInfos[key.Table].parent].filters =
                          AppendNew(@, filters[n].expr)],
            key, filters, n + 1)

\* lines 784-793 and 797-806
RECURSIVE attachAllKeyFilters(_, _, _, _)
attachAllKeyFilters(W, j, onLeft, todo) ==
    IF todo = {} THEN W
    ELSE LET i == CHOOSE k \in todo : \A x \in todo : k <= x
             key == IF onLeft THEN W.joins[j].LeftKeys[i] ELSE W.joins[j].RightKeys[i]
         IN  attachAllKeyFilters(attachKeyFilters(W, key, W.joins[j].keyFilters[i], 1),
                                 j, onLeft, todo \ {i})

\* a strategy chosen from the keys alone
StrategyOfKeys(J) ==
    IF Len(J.LeftKeys) = 0 THEN Cartesian ELSE SortMerge

\* lines 777-781
StrategyOf(J) ==
    IF Len(J.LeftKeys) = 0 /\ Len(J.CmpFilter) = 0 THEN Cartesian ELSE SortMerge

\* lines 776-808
RECURSIVE buildQuery(_, _)
buildQuery(W, n) ==
    IF IsMerge(n) THEN MergeBuildQuery(W, n)
    ELSE LET J == W.joins[n]
             W1 == [W EXCEPT !.joins[n].Strategy = StrategyOf(J)]
             W2 == setNoTableFilter(W1, J.Left, J.noTableFilter)
             W3 == attachAllKeyFilters(W2, n, TRUE, DOMAIN J.keyFilters)
             W4 == buildQuery(W3, J.Left)
             W5 == setNoTableFilter(W4, J.Right, W4.joins[n].noTableFilter)
             W6 == attachAllKeyFilters(W5, n, FALSE, DOMAIN J.keyFilters)
         IN  buildQuery(W6, J.Right)

TheWorld == World(joins, merges, tbInfos, fcol, oracleErr)

Install(W) ==
    /\ joins' = W.joins
    /\ merges' = W.merges
    /\ tbInfos' = W.tbInfos
    /\ fcol' = W.fcol
    /\ err' = W.err
    /\ oracleErr' = W.oracleErr

-----------------------------------------------------------------------------
(* The passes, in the order the driver runs them. *)

\* the builder calls setOtherJoin on every LEFT JOIN it creates, children first
RECURSIVE setOtherJoins(_, _)
setOtherJoins(W, n) ==
    IF ~IsJoin(n) THEN W
    ELSE LET W1 == setOtherJoins(W, W.joins[n].Left)
             W2 == setOtherJoins(W1, W.joins[n].Right)
         IN  IF W2.joins[n].IsLeftJoin THEN setOtherJoin(W2, n, onArgs[n]) ELSE W2

SetOtherJoin ==
    /\ pc = "from"
    /\ Install(setOtherJoins(TheWorld, root))
    /\ pc' = "where"
    /\ UNCHANGED <<root, onArgs, whereIn, eqIn, fieldsIn, sel, havingIn, orderIn>>

PushFilter ==
    /\ pc = "where"
    /\ \E filters \in WhereLists(DOMAIN tbInfos, Min(MaxWhere, ClausesLeft)) :
          LET W0 == [TheWorld EXCEPT !.fcol = [i \in 1..Len(filters) |-> filters[i].col0]]
              W == pushFilter(W0, root, filters)
          IN  /\ Install(W)
              /\ whereIn' = filters
              /\ pc' = IF W.err = NoErr THEN "equal" ELSE "failed"
    /\ UNCHANGED <<root, onArgs, eqIn, fieldsIn, sel, havingIn, orderIn>>

PushEqualCmpr ==
    /\ pc = "equal"
    /\ \E joinTuples \in EqualLists(DOMAIN tbInfos, Min(MaxEqs, ClausesLeft)) :
          LET W == pushEqualCmpr(TheWorld, root, joinTuples)
          IN  /\ Install(W)
              /\ root' = W.ret
              /\ eqIn' = joinTuples
              /\ pc' = "route"
    /\ UNCHANGED <<onArgs, whereIn, fieldsIn, sel, havingIn, orderIn>>

CalcRoute ==
    /\ pc = "route"
    /\ LET W == calcRoute(TheWorld, root)
       IN  /\ Install(W)
           /\ root' = W.ret
           /\ pc' = IF W.err = NoErr THEN "select" ELSE "failed"
    /\ UNCHANGED <<onArgs, whereIn, eqIn, fieldsIn, sel, havingIn, orderIn>>

PushSelectExprs ==
    /\ pc = "select"
    /\ \E fields \in FieldLists(DOMAIN tbInfos, Min(MaxFields, ClausesLeft)) :
       \E groups \in GroupLists(Min(MaxGroups, ClausesLeft - FieldsCost(fields))) :
          LET W == pushSelectExprs(TheWorld, root, fields, groups, HasAggregates(fields))
          IN  /\ Install(W)
              /\ fieldsIn' = fields
              /\ sel' = [sel EXCEPT !.GroupBy = groups]
              /\ pc' = IF W.err = NoErr THEN "having" ELSE "failed"
    /\ UNCHANGED <<root, onArgs, whereIn, eqIn, havingIn, orderIn>>

PushHaving ==
    /\ pc = "having"
    /\ \E havings \in HavingLists(DOMAIN tbInfos, Min(MaxHaving, ClausesLeft)) :
          LET W == pushHaving(TheWorld, root, havings, 1)
          IN  /\ Install(W)
              /\ havingIn' = havings
              /\ pc' = IF W.err = NoErr THEN "order" ELSE "failed"
    /\ UNCHANGED <<root, onArgs, whereIn, eqIn, fieldsIn, sel, orderIn>>

PushOrderBy ==
    /\ pc = "order"
    /\ \E order \in OrderLists(Min(MaxOrders, ClausesLeft)) :
          LET S == [sel EXCEPT !.OrderBy = order]
              W == pushOrderBy(TheWorld, root, S, fieldsIn)
          IN  /\ Install(W)
              /\ orderIn' = order
              /\ sel' = SelectOf(root, S)
              /\ pc' = IF W.err = NoErr THEN "build" ELSE "failed"
    /\ UNCHANGED <<root, onArgs, whereIn, eqIn, fieldsIn, havingIn>>

BuildQuery ==
    /\ pc = "build"
    /\ Install(buildQuery(TheWorld, root))
    /\ pc' = "done"
    /\ UNCHANGED <<root, onArgs, whereIn, eqIn, fieldsIn, sel, havingIn, orderIn>>

Next ==
    \/ SetOtherJoin
    \/ PushFilter
    \/ PushEqualCmpr
    \/ CalcRoute
    \/ PushSelectExprs
    \/ PushHaving
    \/ PushOrderBy
    \/ BuildQuery

Spec == Init /\ [][Next]_vars

-----------------------------------------------------------------------------
(* Properties. *)

\* pushSelectExprs has returned without error on a root that is a JoinNode
Selected == pc \in {"build", "done"} /\ IsJoin(root)
\* buildQuery has run on a root that is a JoinNode
Built == pc = "done" /\ IsJoin(root)

ChildFields(n) == IF IsJoin(n) THEN joins[n].fields ELSE merges[n].fields
ChildTables(n) == IF IsJoin(n) THEN joins[n].referredTables ELSE merges[n].referredTables

\* C1: after pushSelectExprs returns without error on the root JoinNode, every
\* JoinNode of the tree has as many Cols as fields, no entry of Cols is 0, an
\* entry c < 0 addresses column -c-1 of the left child and an entry c > 0
\* column c-1 of the right child, that column is the projection the entry was
\* appended for, and no child column is addressed twice.
C1_ColsTotality ==
    Selected =>
        \A j \in TreeJoins(joins, root) :
            LET J == joins[j]
            IN  /\ Len(J.Cols) = Len(J.fields)
                /\ \A i \in 1..Len(J.Cols) :
                      /\ J.Cols[i] # 0
                      /\ J.Cols[i] < 0 =>
                            /\ -J.Cols[i] <= Len(ChildFields(J.Left))
                            /\ ChildFields(J.Left)[-J.Cols[i]] = J.fields[i]
                      /\ J.Cols[i] > 0 =>
                            /\ J.Cols[i] <= Len(ChildFields(J.Right))
                            /\ ChildFields(J.Right)[J.Cols[i]] = J.fields[i]
                /\ \A i, k \in 1..Len(J.Cols) : i # k => J.Cols[i] # J.Cols[k]

\* a nested join whose root takes columns from both sides, one of them
\* through the nested join
C1_Witness ==
    /\ Selected
    /\ \E j \in TreeJoins(joins, root) :
          /\ \E i \in 1..Len(joins[j].Cols) : joins[j].Cols[i] < 0
          /\ \E i \in 1..Len(joins[j].Cols) : joins[j].Cols[i] > 0
          /\ \E c \in {joins[j].Left, joins[j].Right} :
                IsJoin(c) /\ Len(joins[c].Cols) >= 2

KeyOrders(J, onLeft) ==
    [i \in 1..Len(J.joinOn) |->
        AscOrder(IF onLeft THEN J.joinOn[i].left ELSE J.joinOn[i].right)]

\* C6: after pushSelectExprs, the ORDER BY list of a MergeNode that is the left
\* (right) child of a JoinNode is the ascending order on that join's left
\* (right) key columns, in joinOn order, and nothing else: a key whose side
\* is a JoinNode adds no ORDER BY to any MergeNode.
C6_OrderByKeys ==
    Selected =>
        \A j \in TreeJoins(joins, root) :
            /\ IsMerge(joins[j].Left) =>
                  merges[joins[j].Left].OrderBy = KeyOrders(joins[j], TRUE)
            /\ IsMerge(joins[j].Right) =>
                  merges[joins[j].Right].OrderBy = KeyOrders(joins[j], FALSE)

\* a join with two keys whose one side is a merge and whose other side is a join
C6_Witness ==
    /\ Selected
    /\ \E j \in TreeJoins(joins, root) :
          /\ Len(joins[j].joinOn) >= 2
          /\ \E c \in {joins[j].Left, joins[j].Right} : IsJoin(c)
          /\ \E c \in {joins[j].Left, joins[j].Right} :
                IsMerge(c) /\ Len(merges[c].OrderBy) >= 2

\* C8: after buildQuery, a JoinNode's Strategy is SortMerge if and only if its
\* LeftKeys or its CmpFilter is non-empty, and Cartesian otherwise; a join
\* with a key whose only residual is the WHERE comparison l > r, l on its left
\* and r on its right, is SortMerge with exactly one Comparison, whose
\* operator is ">" and whose Exchange is false.
C8_Strategy ==
    Built =>
        \A j \in TreeJoins(joins, root) :
            LET J == joins[j]
            IN  /\ J.Strategy = SortMerge <=> (Len(J.LeftKeys) > 0 \/ Len(J.CmpFilter) > 0)
                /\ J.Strategy = Cartesian <=> (Len(J.LeftKeys) = 0 /\ Len(J.CmpFilter) = 0)
                /\ ( /\ Len(J.joinOn) >= 1
                     /\ Len(J.otherFilter) = 1
                     /\ J.otherFilter[1].k = "cmp"
                     /\ J.otherFilter[1].op = ">"
                     /\ J.otherFilter[1].l.k = "col"
                     /\ J.otherFilter[1].r.k = "col"
                     /\ J.otherFilter[1].l.t \in ChildTables(J.Left)
                     /\ J.otherFilter[1].r.t \in ChildTables(J.Right)
                     /\ J.otherJoinOn.others = <<>> )
                   => /\ J.Strategy = SortMerge
                      /\ Len(J.CmpFilter) = 1
                      /\ J.CmpFilter[1].Operator = ">"
                      /\ J.CmpFilter[1].Exchange = FALSE

\* a keyed join with the residual l > r next to a join that is SortMerge by
\* its residual alone
C8_Witness ==
    /\ Built
    /\ \E j \in TreeJoins(joins, root) :
          /\ Len(joins[j].LeftKeys) >= 1
          /\ Len(joins[j].CmpFilter) = 1
          /\ joins[j].CmpFilter[1].Operator = ">"
          /\ joins[j].Strategy = SortMerge

\* calcRoute has returned without error
Routed == pc \in {"select", "build", "done"}

\* C4: calcRoute on a JoinNode returns a single MergeNode whenever its two
\* routed children are MergeNodes that carry the same non-empty backend or
\* one of which has shardCount 0; in every other case it returns the JoinNode
\* itself, whose Left and Right are the routed children.  When the left
\* MergeNode has shardCount 0, the merged node has the backend, routeLen and
\* index of the right one.
C4_RouteCollapse ==
    Routed =>
        \A j \in DOMAIN joins :
            LET r == joins[j].routed
                collapses ==
                    /\ r.lmn.isMerge
                    /\ r.rmn.isMerge
                    /\ \/ r.lmn.backend # "" /\ r.lmn.backend = r.rmn.backend
                       \/ r.lmn.shardCount = 0
                       \/ r.rmn.shardCount = 0
            IN  r.done =>
                  /\ collapses => IsMerge(r.ret)
                  /\ ~collapses =>
                        /\ r.ret = j
                        /\ joins[j].Left = r.lmn.id
                        /\ joins[j].Right = r.rmn.id
                  /\ (collapses /\ r.lmn.shardCount = 0) =>
                        /\ r.mn.backend = r.rmn.backend
                        /\ r.mn.routeLen = r.rmn.routeLen
                        /\ r.mn.index = r.rmn.index

\* a nested join collapsed into its unsharded left MergeNode, under a root
\* that calcRoute returned as it was
C4_Witness ==
    /\ Routed
    /\ \E j, k \in DOMAIN joins :
          /\ joins[j].routed.done
          /\ IsMerge(joins[j].routed.ret)
          /\ joins[j].routed.lmn.shardCount = 0
          /\ joins[j].routed.rmn.backend # ""
          /\ joins[k].routed.done
          /\ joins[k].routed.ret = k

\* the WHERE filter f is an IS NULL test on a column of a table of tbs
NullTestOn(f, tbs) == f.expr.k = "isnull" /\ checkTbInNode(f.referTables, tbs)

\* C2: for every LEFT JOIN node of the plan tree, root or nested, and every
\* WHERE predicate that is an IS NULL test on a column of a table of the
\* node's right subtree: after pushFilter, pushEqualCmpr, calcRoute and
\* pushSelectExprs the predicate is no WHERE filter of a MergeNode of the right
\* subtree; it is held in the node's rightNull and projected on the right
\* child, at the index recorded in RightTmpCols.
C2_LeftJoinPreservation ==
    Selected =>
        \A j \in TreeJoins(joins, root) :
            joins[j].IsLeftJoin =>
                \A i \in 1..Len(whereIn) :
                    NullTestOn(whereIn[i], ChildTables(joins[j].Right)) =>
                        /\ \A m \in TreeMerges(joins, joins[j].Right) :
                              ~Contains(merges[m].filters, whereIn[i].expr)
                        /\ \E k \in 1..Len(joins[j].rightNull) :
                              /\ joins[j].rightNull[k] = nullExprOf(whereIn[i])
                              /\ k <= Len(joins[j].RightTmpCols)
                              /\ joins[j].RightTmpCols[k] >= 0
                              /\ joins[j].RightTmpCols[k] < Len(ChildFields(joins[j].Right))
                              /\ ChildFields(joins[j].Right)[joins[j].RightTmpCols[k] + 1].expr.e
                                    = whereIn[i].expr.e

\* the part of C2 that the code keeps: the same for the root LEFT JOIN
C2_RootLeftJoin ==
    (Selected /\ joins[root].IsLeftJoin) =>
        \A i \in 1..Len(whereIn) :
            NullTestOn(whereIn[i], ChildTables(joins[root].Right)) =>
                /\ \A m \in TreeMerges(joins, joins[root].Right) :
                      ~Contains(merges[m].filters, whereIn[i].expr)
                /\ \E k \in 1..Len(joins[root].rightNull) :
                      /\ joins[root].rightNull[k] = nullExprOf(whereIn[i])
                      /\ k <= Len(joins[root].RightTmpCols)

\* the WHERE filter f is column = literal
IsKeyLiteral(f) == f.hasCol /\ f.val # NoVal /\ f.expr.k = "collit" /\ f.expr.op = "="

\* the query emitted for the MergeNode owning col's table has col = val in its WHERE
QueryHas(col, val) ==
    LET m == tbInfos[col.t].parent
    IN  /\ Len(merges[m].Querys) = 1
        /\ Contains(merges[m].Querys[1].where, Cmp("=", col, Lit(val)))

\* C3: if a JoinNode that survives calcRoute has a join-on equality l = r at
\* some index i and the WHERE clause held the filter l = K (or r = K), then
\* after buildQuery the query of the MergeNode owning l's table contains l = K
\* and the query of the MergeNode owning r's table contains r = K, at every
\* nesting depth.
C3_KeyFilterTransitivity ==
    Built =>
        \A j \in TreeJoins(joins, root) :
            \A i \in 1..Len(joins[j].joinOn) :
                \A n \in 1..Len(whereIn) :
                    LET on == joins[j].joinOn[i]
                        f == whereIn[n]
                    IN  (IsKeyLiteral(f) /\ f.col0 \in {on.left, on.right}) =>
                            QueryHas(on.left, f.val) /\ QueryHas(on.right, f.val)

\* C3, amended: the same for the first index i of the node's joinOn whose
\* column on the filter's side is the filter's column; a later join-on on the
\* same column gets no filter from it.
C3_FirstKeyFilterTransitivity ==
    Built =>
        \A j \in TreeJoins(joins, root) :
            \A i \in 1..Len(joins[j].joinOn) :
                \A n \in 1..Len(whereIn) :
                    LET on == joins[j].joinOn[i]
                        f == whereIn[n]
                        first == \A k \in 1..(i - 1) :
                                    f.col0 \notin {joins[j].joinOn[k].left,
                                                   joins[j].joinOn[k].right}
                    IN  (IsKeyLiteral(f) /\ f.col0 \in {on.left, on.right} /\ first) =>
                            QueryHas(on.left, f.val) /\ QueryHas(on.right, f.val)

\* a nested join and its parent both keyed on the column of a WHERE literal
\* filter, which reaches the queries of all three tables
C3_Witness ==
    /\ Built
    /\ \E n \in 1..Len(whereIn) :
          /\ IsKeyLiteral(whereIn[n])
          /\ \E j, k \in TreeJoins(joins, root) :
                /\ j # k
                /\ \E i \in 1..Len(joins[j].joinOn) :
                      whereIn[n].col0 \in {joins[j].joinOn[i].left, joins[j].joinOn[i].right}
                /\ \E i \in 1..Len(joins[k].joinOn) :
                      whereIn[n].col0 \in {joins[k].joinOn[i].left, joins[k].joinOn[i].right}
          /\ \A t \in DOMAIN tbInfos : QueryHas(Col(t, "a"), whereIn[n].val)

\* the key points at a projection of node n that is the column col itself
KeyProjects(n, key, col) ==
    /\ key.Index >= 0
    /\ key.Index < Len(ChildFields(n))
    /\ ChildFields(n)[key.Index + 1].expr.e = col

\* C5: after pushSelectExprs, every JoinNode has as many LeftKeys and
\* RightKeys as joinOn entries, LeftKeys[i].Index is a valid index of the left
\* child's field list whose field is a projection of the column joinOn[i].left
\* itself, and likewise RightKeys[i] for joinOn[i].right in the right child,
\* for every select list, one aliasing another expression of the table to
\* the key column's name included.
C5_KeyPresence ==
    Selected =>
        \A j \in TreeJoins(joins, root) :
            LET J == joins[j]
            IN  /\ Len(J.LeftKeys) = Len(J.joinOn)
                /\ Len(J.RightKeys) = Len(J.joinOn)
                /\ \A i \in 1..Len(J.joinOn) :
                      /\ KeyProjects(J.Left, J.LeftKeys[i], J.joinOn[i].left)
                      /\ KeyProjects(J.Right, J.RightKeys[i], J.joinOn[i].right)

\* what the code keeps of C5: the keys are valid indexes of fields of the key
\* column's table that bear the key column's name
C5_KeyNamePresence ==
    Selected =>
        \A j \in TreeJoins(joins, root) :
            LET J == joins[j]
                named(n, key, col) ==
                    /\ key.Index >= 0
                    /\ key.Index < Len(ChildFields(n))
                    /\ ChildFields(n)[key.Index + 1].field = col.c
                    /\ ChildFields(n)[key.Index + 1].referTables = <<col.t>>
            IN  /\ Len(J.LeftKeys) = Len(J.joinOn)
                /\ Len(J.RightKeys) = Len(J.joinOn)
                /\ \A i \in 1..Len(J.joinOn) :
                      /\ named(J.Left, J.LeftKeys[i], J.joinOn[i].left)
                      /\ named(J.Right, J.RightKeys[i], J.joinOn[i].right)

\* C7: whenever GetIndex returns an error to a pass that resolves a literal to
\* a shard, in pushFilter for a shard-key equality or in calcRoute's
\* buildKeyFilter for the other side of a join key, the pass stops and returns
\* that error to its caller: no pass that got an error from GetIndex reports
\* success.
C7_RouteErrorPropagates ==
    oracleErr # NoErr => (pc = "failed" /\ err = oracleErr)

\* what the code keeps of C7: pushFilter returns the error of GetIndex
C7_PushFilterPropagates ==
    [][(pc = "where" /\ oracleErr' # NoErr) => (pc' = "failed" /\ err' = oracleErr')]_vars

\* the root is a LEFT JOIN of two MergeNodes with one key whose ON clause also
\* holds a constant, one left-only and one right-only predicate; there is no
\* WHERE clause and the select list is of plain columns
OnResidualCase ==
    /\ Built
    /\ joins[root].IsLeftJoin
    /\ IsMerge(joins[root].Left)
    /\ IsMerge(joins[root].Right)
    /\ Len(joins[root].joinOn) = 1
    /\ Len(joins[root].otherJoinOn.noTables) = 1
    /\ Len(joins[root].otherJoinOn.left) = 1
    /\ Len(joins[root].otherJoinOn.right) = 1
    /\ joins[root].otherJoinOn.others = <<>>
    /\ whereIn = <<>>
    /\ eqIn = <<>>
    /\ \A i \in 1..Len(fieldsIn) : fieldsIn[i].expr.e.k = "col" /\ fieldsIn[i].expr.as = ""

\* the columns of the select list that are of node n, in order
SelectedOf(n) ==
    LET ofNode(f) == checkTbInNode(f.referTables, ChildTables(n))
    IN  SelectSeq(fieldsIn, ofNode)

\* the projection of the key column col if the select list has not got it
KeyIfAbsent(n, col) ==
    IF \E i \in 1..Len(SelectedOf(n)) : SelectedOf(n)[i].expr.e = col
    THEN <<>>
    ELSE <<SelectTuple(Aliased(col, ""), col.c, <<col.t>>)>>

\* what C9 says of the right MergeNode, of LeftTmpCols and of the Strategy
OnResidualRest ==
    LET J == joins[root]
        L == merges[J.Left]
        R == merges[J.Right]
    IN  /\ L.OrderBy = <<AscOrder(J.joinOn[1].left)>>
        /\ \E i \in 1..Len(R.fields) : R.fields[i].expr.e = J.joinOn[1].right
        /\ Contains(R.Querys[1].where, J.otherJoinOn.noTables[1])
        /\ Contains(R.Querys[1].where, J.otherJoinOn.right[1].expr)
        /\ R.OrderBy = <<AscOrder(J.joinOn[1].right)>>
        /\ Len(J.LeftTmpCols) = 1
        /\ J.LeftTmpCols[1] >= 0
        /\ J.LeftTmpCols[1] < Len(L.fields)
        /\ L.fields[J.LeftTmpCols[1] + 1] = J.otherJoinOn.left[1]
        /\ J.otherJoinOn.left[1].field = "tmpc_0"
        /\ J.Strategy = SortMerge

\* C9: for a cross-shard LEFT JOIN whose ON clause holds a key, a constant, a
\* left-only predicate P and a right-only predicate Q, with select list S: the
\* left MergeNode projects P AS tmpc_0, then the columns of S, then the left
\* key if S has not got it, ordered by the left key; the right MergeNode
\* projects the right key, has the constant and Q in its WHERE and is ordered
\* by the right key; LeftTmpCols holds the index of tmpc_0; Strategy is
\* SortMerge.
C9_OnResidualScenario ==
    OnResidualCase =>
        /\ merges[joins[root].Left].fields =
              joins[root].otherJoinOn.left
              \o SelectedOf(joins[root].Left)
              \o KeyIfAbsent(joins[root].Left, joins[root].joinOn[1].left)
        /\ OnResidualRest

\* what the code does in the case of C9: tmpc_0 is the last column of the
\* left MergeNode, after the columns of S and the left key
C9_TmpColumnLast ==
    OnResidualCase =>
        /\ merges[joins[root].Left].fields =
              SelectedOf(joins[root].Left)
              \o KeyIfAbsent(joins[root].Left, joins[root].joinOn[1].left)
              \o joins[root].otherJoinOn.left
        /\ OnResidualRest

\* pushFilter has just returned without error on the node RootJoin
Filtered == pc = "equal"

\* the filter refers to a table of the right subtree of RootJoin
RefersRight(f) ==
    \E i \in 1..Len(f.referTables) : f.referTables[i] \in ChildTables(joins[RootJoin].Right)

\* C10: after pushFilter(filters) returns without error on a LEFT JOIN node,
\* HasRightFilter is true if any filter of the list refers to a table of the
\* node's right subtree, whatever its shape, an IS NULL test recorded in
\* rightNull included; once true it is never reset, and it stays false on a
\* node that is not a left join.
C10_HasRightFilter ==
    [][ /\ (Filtered /\ joins[RootJoin].IsLeftJoin
               /\ \E n \in 1..Len(whereIn) : RefersRight(whereIn[n]))' =>
            joins'[RootJoin].HasRightFilter
        /\ joins[RootJoin].HasRightFilter => joins'[RootJoin].HasRightFilter
        /\ ~joins'[RootJoin].IsLeftJoin => ~joins'[RootJoin].HasRightFilter ]_vars

\* C10, amended: after pushFilter(filters) returns without error on a LEFT
\* JOIN node, HasRightFilter is true if and only if some filter of the list
\* refers to a table of the node's right subtree and is not an IS NULL test
\* on right-subtree tables, which is recorded in rightNull and leaves the flag
\* alone; once true it is never reset, and it stays false on a node that is
\* not a left join.
C10_HasRightFilterButNull ==
    [][ /\ (Filtered /\ joins[RootJoin].IsLeftJoin =>
               (joins[RootJoin].HasRightFilter <=>
                   \E n \in 1..Len(whereIn) :
                       /\ RefersRight(whereIn[n])
                       /\ ~NullTestOn(whereIn[n], ChildTables(joins[RootJoin].Right))))'
        /\ joins[RootJoin].HasRightFilter => joins'[RootJoin].HasRightFilter
        /\ ~joins'[RootJoin].IsLeftJoin => ~joins'[RootJoin].HasRightFilter ]_vars

\* a LEFT JOIN whose WHERE list held an IS NULL test on its right table, now in
\* rightNull, and a comparison of both sides that set the flag
C10_Witness ==
    /\ Filtered
    /\ joins[RootJoin].IsLeftJoin
    /\ joins[RootJoin].HasRightFilter
    /\ Len(joins[RootJoin].rightNull) = 1
    /\ \E n \in 1..Len(whereIn) :
          Len(whereIn[n].referTables) = 2 /\ RefersRight(whereIn[n])

\* a LEFT JOIN whose only WHERE filter on its right side is an IS NULL test:
\* the flag is down
C10_NullOnly ==
    /\ Filtered
    /\ joins[RootJoin].IsLeftJoin
    /\ ~joins[RootJoin].HasRightFilter
    /\ Len(joins[RootJoin].rightNull) = 1

\* pushHaving has returned on a root that is a JoinNode: without error, or
\* with its error
HavingPushed ==
    /\ IsJoin(root)
    /\ pc \in {"order", "build", "done"} \/ (pc = "failed" /\ err = HavingErr)

\* the MergeNodes owning the tables of the HAVING predicate f
HavingOwners(f) == {tbInfos[f.referTables[i]].parent : i \in 1..Len(f.referTables)}

\* the HAVING predicate f spans MergeNodes: its lowest common ancestor is a join
HavingSpans(f) == Cardinality(HavingOwners(f)) > 1

\* the predicates of havingIn before the first that spans MergeNodes
HavingAccepted ==
    LET bad == {i \in 1..Len(havingIn) : HavingSpans(havingIn[i])}
    IN  IF bad = {} THEN havingIn
        ELSE SubSeq(havingIn, 1, (CHOOSE i \in bad : \A k \in bad : i <= k) - 1)

\* the accepted predicates that belong to the MergeNode m, in order
HavingOf(m) ==
    LET mine(f) == Len(f.referTables) = 0 \/ HavingOwners(f) = {m}
    IN  ExprsOf(SelectSeq(HavingAccepted, mine))

\* C11: after pushHaving on a JoinNode, the HAVING of every Merge leaf under it
\* holds, in order, the predicates of no table, the predicates of one table
\* the leaf owns, and the predicates of several tables that the leaf owns
\* all, and nothing else; pushHaving returns the `unsupported:` error exactly
\* when a predicate's tables are owned by different leaves, and that predicate
\* and those after it are added to no node.
C11_HavingPlacement ==
    HavingPushed =>
        /\ \A m \in TreeMerges(joins, root) : merges[m].having = HavingOf(m)
        /\ err = HavingErr <=> \E i \in 1..Len(havingIn) : HavingSpans(havingIn[i])

\* under a root JoinNode, a predicate of two tables is in the HAVING of the
\* Merge that owns both
C11_Witness ==
    /\ HavingPushed
    /\ err = NoErr
    /\ \E i \in 1..Len(havingIn) :
          /\ Len(havingIn[i].referTables) = 2
          /\ \E m \in TreeMerges(joins, root) : Contains(merges[m].having, havingIn[i].expr)

\* pushHaving refused a predicate after it had placed another
C11_Refused ==
    /\ HavingPushed
    /\ err = HavingErr
    /\ \E m \in TreeMerges(joins, root) : merges[m].having # <<>>

\* the ordering pushOrderBy works on: the ORDER BY list, or without one the
\* GROUP BY columns in ascending order
Ordering ==
    IF orderIn' = <<>>
    THEN [i \in 1..Len(sel.GroupBy) |-> [Expr |-> sel.GroupBy[i], Direction |-> "asc"]]
    ELSE orderIn'

\* the column col is in the select list
InSelectList(col) ==
    \E i \in 1..Len(fieldsIn) :
        /\ fieldsIn[i].field = col.c
        /\ col.t = "" \/ fieldsIn[i].referTables = <<col.t>>

\* the `unsupported:` error of the ordering entry o, NoErr if it has none
OrderingErr(o) ==
    IF o.Expr.k # "col" THEN OrderExprErr
    ELSE IF o.Expr.t # "" /\ o.Expr.t \notin DOMAIN tbInfos
    THEN OrderTableErr(o.Expr.t, o.Expr.c)
    ELSE IF ~InSelectList(o.Expr) THEN OrderFieldErr(o.Expr.c)
    ELSE NoErr

\* the Order-By child plan of the ordering
OrderingPlan ==
    [typ |-> "Orderby",
     OrderBys |-> [i \in 1..Len(Ordering) |->
                     [Field |-> Ordering[i].Expr.c, Table |-> Ordering[i].Expr.t,
                      Direction |-> IF Ordering[i].Direction = "asc" THEN "ASC" ELSE "DESC"]]]

\* C12: pushOrderBy on a JoinNode works on the ORDER BY list or, when the query
\* has none, on its GROUP BY columns in ascending order.  If an entry of that
\* ordering is not a column, names a table that is not in the plan or is not
\* in the select list, pushOrderBy returns the `unsupported:` error of the
\* first such entry and appends no child plan; otherwise, when the ordering is
\* not empty, it appends exactly one Order-By child plan, whose OrderBys has
\* one entry per ordering entry, in the same order and with the same
\* direction; with no ordering it appends nothing.
C12_OrderByPlan ==
    [][ (pc = "order" /\ IsJoin(root)) =>
          LET bad == {i \in 1..Len(Ordering) : OrderingErr(Ordering[i]) # NoErr}
              first == CHOOSE i \in bad : \A k \in bad : i <= k
          IN  IF bad # {}
              THEN /\ err' = OrderingErr(Ordering[first])
                   /\ pc' = "failed"
                   /\ joins'[root].children = joins[root].children
              ELSE /\ err' = NoErr
                   /\ joins'[root].children =
                         IF Ordering = <<>> THEN joins[root].children
                         ELSE Append(joins[root].children, OrderingPlan) ]_vars

\* an Order-By child plan of two entries, one ascending and one descending
C12_Witness ==
    /\ pc = "build"
    /\ IsJoin(root)
    /\ \E k \in 1..Len(joins[root].children) :
          LET plan == joins[root].children[k]
          IN  /\ plan.typ = "Orderby"
              /\ Len(plan.OrderBys) = 2
              /\ {plan.OrderBys[1].Direction, plan.OrderBys[2].Direction} = {"ASC", "DESC"}

\* a query without ORDER BY whose GROUP BY column became the ordering
C12_Promoted ==
    /\ pc = "build"
    /\ IsJoin(root)
    /\ orderIn = <<>>
    /\ Len(sel.GroupBy) = 1
    /\ joins[root].children =
          <<AggregatePlan(sel.GroupBy),
            [typ |-> "Orderby",
             OrderBys |-> <<OrderBy(sel.GroupBy[1].c, sel.GroupBy[1].t, ASC)>>]>>

\* ORDER BY b on a select list without b: the error of the specification
C12_NotInSelectList ==
    /\ pc = "failed"
    /\ IsJoin(root)
    /\ err = "unsupported: orderby[b].should.in.select.list"
    /\ \A k \in 1..Len(joins[root].children) : joins[root].children[k].typ # "Orderby"

\* pushEqualCmpr runs on a root that is a JoinNode; no join has collapsed yet
Equalling == pc = "equal" /\ IsJoin(root)

\* the join whose children hold one table of the equality e each, among the
\* joins of the tree pushEqualCmpr starts on
EqualJoin(e) ==
    CHOOSE j \in TreeJoins(joins, root) :
        \/ e.left.t \in ChildTables(joins[j].Left) /\ e.right.t \in ChildTables(joins[j].Right)
        \/ e.left.t \in ChildTables(joins[j].Right) /\ e.right.t \in ChildTables(joins[j].Left)

\* the equality e is between the shard keys of two MergeNode children of one join
Collapsing(e) ==
    /\ IsMerge(joins[EqualJoin(e)].Left)
    /\ IsMerge(joins[EqualJoin(e)].Right)
    /\ isSameShard(TheWorld, e.left, e.right)

\* index of the first equality of eqIn' that collapses a join, 0 if none does
FirstCollapse ==
    LET hits == {n \in 1..Len(eqIn') : Collapsing(eqIn'[n])}
    IN  IF hits = {} THEN 0 ELSE CHOOSE n \in hits : \A k \in hits : n <= k

\* the equalities before the first collapse that were recorded on join A
EarlierOn(A) ==
    {eqIn'[k].expr : k \in {i \in 1..(FirstCollapse - 1) : EqualJoin(eqIn'[i]) = A}}

\* the equality e collapses the root once its child A has collapsed
CollapsingNext(A, e) ==
    /\ A # root
    /\ EqualJoin(e) = root
    /\ IsMerge(joins[root].Left) \/ IsMerge(joins[root].Right)
    /\ isSameShard(TheWorld, e.left, e.right)

\* when pushEqualCmpr comes to the k-th equality, after the collapse of A on the
\* n-th, one MergeNode owns both its tables
OwnedAtTurn(A, n, k) ==
    \/ {eqIn'[k].left.t, eqIn'[k].right.t} \subseteq joins[A].referredTables
    \/ \E m \in (n + 1)..(k - 1) : CollapsingNext(A, eqIn'[m])

\* the WHERE filters of the MergeNode that owns table t after the pass
WhereOfOwner(t) == SeqToSet(merges'[tbInfos'[t].parent].filters)

\* C13: in pushEqualCmpr, the first equality whose lowest common ancestor is a
\* JoinNode A with two Merge children sharded alike under it replaces A by one
\* merged Merge: the root if A was the root, else the child of A's parent in
\* A's slot unless the root collapsed later.  The merged Merge's WHERE holds
\* every expression of A's tableFilter, otherFilter and noTableFilter and the
\* triggering equality; it holds A's joinOn equalities when A had no ON clause
\* and does not hold them when A had one.  An equality after the collapse
\* whose two tables one Merge owns when its turn comes is in that Merge's WHERE.  The node
\* returned is the root of the resulting tree: a Merge when the root
\* collapsed, the JoinNode it was called on otherwise.
C13_EqualCollapse ==
    [][ Equalling =>
          LET n == FirstCollapse
              e == eqIn'[n]
              A == EqualJoin(e)
              mn == joins[A].Left
              where == WhereOfOwner(e.left.t)
          IN  /\ n = 0 => root' = root
              /\ n # 0 =>
                    /\ tbInfos'[e.left.t].parent = tbInfos'[e.right.t].parent
                    /\ A = root => root' = mn
                    /\ A # root =>
                          \/ IsMerge(root')
                          \/ /\ root' = root
                             /\ joins[root].Left = A => joins'[root].Left = mn
                             /\ joins[root].Right = A => joins'[root].Right = mn
                    /\ IsJoin(root') => tbInfos'[e.left.t].parent = mn
                    /\ SeqToSet(ExprsOf(joins[A].tableFilter)) \subseteq where
                    /\ SeqToSet(joins[A].otherFilter) \subseteq where
                    /\ SeqToSet(joins[A].noTableFilter) \subseteq where
                    /\ e.expr \in where
                    /\ ~joins[A].hasJoinExpr =>
                          SeqToSet(ExprsOf(joins[A].joinOn)) \cup EarlierOn(A) \subseteq where
                    /\ joins[A].IsLeftJoin => EarlierOn(A) \subseteq where
                    /\ (joins[A].hasJoinExpr /\ ~joins[A].IsLeftJoin) =>
                          \A x \in SeqToSet(ExprsOf(joins[A].joinOn)) \cup EarlierOn(A) :
                              x \in where => \E k \in n..Len(eqIn') : eqIn'[k].expr = x
                    /\ joins[A].IsLeftJoin =>
                          \A x \in SeqToSet(ExprsOf(joins[A].joinOn)) :
                              x \in where => \E k \in 1..Len(eqIn') : eqIn'[k].expr = x
                    /\ \A k \in (n + 1)..Len(eqIn') :
                          OwnedAtTurn(A, n, k)
                              => eqIn'[k].expr \in WhereOfOwner(eqIn'[k].left.t)
              /\ IsJoin(root') => root' = root
              /\ IsMerge(root') =>
                    /\ merges'[root'].parent = Nil
                    /\ \A t \in DOMAIN tbInfos : tbInfos'[t].parent = root' ]_vars

\* pushEqualCmpr has returned
Equalled == pc = "route"

\* a comma join that had taken an equality as joinOn collapsed on the next
\* one, under a root that stayed: its Merge has both equalities as WHERE
C13_Witness ==
    /\ Equalled
    /\ IsJoin(root)
    /\ Len(eqIn) = 2
    /\ \E A \in DOMAIN joins \ TreeJoins(joins, root) :
          /\ ~joins[A].hasJoinExpr
          /\ ExprsOf(joins[A].joinOn) = <<eqIn[1].expr>>
          /\ joins[root].Left = joins[A].Left \/ joins[root].Right = joins[A].Left
          /\ merges[joins[A].Left].filters = <<eqIn[1].expr, eqIn[2].expr>>

\* two collapses in one pass: the nested join, then the root on the tree the
\* first collapse left; the Merge returned owns the three tables
C13_Twice ==
    /\ Equalled
    /\ IsMerge(root)
    /\ Len(eqIn) = 2
    /\ Cardinality(DOMAIN tbInfos) = 3
    /\ \A t \in DOMAIN tbInfos : tbInfos[t].parent = root
    /\ {eqIn[1].expr, eqIn[2].expr} \subseteq SeqToSet(merges[root].filters)

\* a join with an ON clause collapsed: its ON key is no WHERE of the Merge
C13_OnKept ==
    /\ Equalled
    /\ \E A \in DOMAIN joins \ TreeJoins(joins, root) :
          /\ joins[A].hasJoinExpr
          /\ Len(joins[A].joinOn) = 1
          /\ ~Contains(merges[tbInfos[joins[A].joinOn[1].left.t].parent].filters,
                       joins[A].joinOn[1].expr)

ParentIn(n) == IF IsJoin(n) THEN joins[n].parent ELSE merges[n].parent

\* the tables whose TableInfo.parent is the MergeNode m
OwnedBy(m) == {t \in DOMAIN tbInfos : tbInfos[t].parent = m}

\* the MergeNodes that own the tables of the JoinNode j
OwnersUnder(j) == {tbInfos[t].parent : t \in joins[j].referredTables}

\* C14: after pushEqualCmpr and after calcRoute, whatever joins collapsed, the
\* tree under the node returned is consistent: the root has no parent; both
\* children of every JoinNode have it as parent, so the slot of a collapsed
\* join holds the merged Merge; no JoinNode of the tree is a collapsed one
\* (its tables have at least two owners) and no Merge of the tree is a
\* subsumed one (it owns the tables it refers to, and at least one); every
\* TableInfo.parent is a Merge leaf of the tree.
C14_TreeConsistency ==
    (Equalled \/ Routed) =>
        /\ ParentIn(root) = Nil
        /\ \A j \in TreeJoins(joins, root) :
              /\ ParentIn(joins[j].Left) = j
              /\ ParentIn(joins[j].Right) = j
              /\ Cardinality(OwnersUnder(j)) >= 2
        /\ \A m \in TreeMerges(joins, root) :
              /\ OwnedBy(m) # {}
              /\ OwnedBy(m) = merges[m].referredTables
        /\ \A t \in DOMAIN tbInfos : tbInfos[t].parent \in TreeMerges(joins, root)

\* calcRoute has returned a root whose right slot, which held a join that
\* pushEqualCmpr collapsed, holds the Merge of that join's two tables
C14_Witness ==
    /\ Routed
    /\ IsJoin(root)
    /\ IsMerge(joins[root].Right)
    /\ Cardinality(OwnedBy(joins[root].Right)) = 2
    /\ Len(eqIn) >= 1
    /\ ~joins[SubJoin].routed.done

\* a join collapsed by calcRoute under a root that stayed
C14_RouteCollapsed ==
    /\ Routed
    /\ IsJoin(root)
    /\ \E j \in DOMAIN joins :
          /\ joins[j].routed.done
          /\ IsMerge(joins[j].routed.ret)
          /\ joins[j].routed.ret \in {joins[root].Left, joins[root].Right}

\* calcRoute has just returned without error
JustRouted == pc = "select"

\* the WHERE filter f is a WHERE filter of a Merge of the tree
OnMerge(f) == \E m \in TreeMerges(joins, root) : Contains(merges[m].filters, f.expr)

\* the WHERE filter f is held by a JoinNode of the tree
OnJoin(f) ==
    \E j \in TreeJoins(joins, root) :
        \/ Contains(joins[j].tableFilter, f)
        \/ \E k \in DOMAIN joins[j].keyFilters : Contains(joins[j].keyFilters[k], f)
        \/ Contains(joins[j].otherFilter, f.expr)
        \/ Contains(joins[j].noTableFilter, f.expr)
        \/ f.expr.k = "isnull" /\ Contains(joins[j].rightNull, nullExprOf(f))

\* C15: after pushFilter, pushEqualCmpr and calcRoute, whatever joins
\* collapsed, every filter pushFilter accepted is a WHERE filter of a Merge of
\* the tree or is in the tableFilter, keyFilters, otherFilter, noTableFilter
\* or rightNull of a JoinNode of the tree.
C15_NoFilterLost ==
    JustRouted => \A i \in 1..Len(whereIn) : OnMerge(whereIn[i]) \/ OnJoin(whereIn[i])

\* what the code keeps of C15: the same for every filter but the IS NULL tests
\* that pushFilter recorded in the rightNull of a LEFT JOIN
C15_NoFilterLostButNull ==
    JustRouted =>
        \A i \in 1..Len(whereIn) :
            \/ OnMerge(whereIn[i])
            \/ OnJoin(whereIn[i])
            \/ /\ joins[RootJoin].IsLeftJoin
               /\ RootJoin \notin TreeJoins(joins, root)
               /\ Contains(joins[RootJoin].rightNull, nullExprOf(whereIn[i]))

\* a filter of each kind survived the collapse of the root: it is a WHERE of
\* the Merge returned
C15_Kept ==
    /\ JustRouted
    /\ IsMerge(root)
    /\ Len(whereIn) = 2
    /\ \A i \in 1..Len(whereIn) : Contains(merges[root].filters, whereIn[i].expr)

\* the equality e with its left column in the left child of join A
Oriented(e, A) ==
    IF e.left.t \in ChildTables(joins[A].Left) THEN e
    ELSE [e EXCEPT !.left = e.right, !.right = e.left]

\* the equalities of eqIn' that pushEqualCmpr meets before any join collapses
\* and whose lowest common ancestor is the join A, oriented, in order
KeptOn(A) ==
    LET last == IF FirstCollapse = 0 THEN Len(eqIn') ELSE FirstCollapse - 1
        onA(e) == EqualJoin(e) = A
        kept == SelectSeq(SubSeq(eqIn', 1, last), onA)
    IN  [i \in 1..Len(kept) |-> Oriented(kept[i], A)]

\* s begins with p
StartsWith(s, p) == Len(s) >= Len(p) /\ SubSeq(s, 1, Len(p)) = p

\* the step of pushEqualCmpr: an equality whose lowest common ancestor
\* is a JoinNode A that does not collapse on it is appended to A.joinOn, its
\* left column being the one of A's left child, and conjoined to A's ON clause
\* when A has one, if A is no LEFT JOIN; if A is a LEFT JOIN it is appended to
\* A.otherFilter, and A.joinOn and the ON clause stay as they were.
EqualRecorded ==
    [][ Equalling =>
          \A A \in TreeJoins(joins, root) :
              IF joins[A].IsLeftJoin
              THEN /\ joins'[A].joinOn = joins[A].joinOn
                   /\ joins'[A].On = joins[A].On
                   /\ StartsWith(joins'[A].otherFilter,
                                 joins[A].otherFilter \o ExprsOf(KeptOn(A)))
              ELSE /\ StartsWith(joins'[A].joinOn, joins[A].joinOn \o KeptOn(A))
                   /\ StartsWith(joins'[A].On,
                                 IF joins[A].hasJoinExpr
                                 THEN joins[A].On \o ExprsOf(KeptOn(A))
                                 ELSE joins[A].On)
                   /\ ~joins[A].hasJoinExpr => joins'[A].On = joins[A].On
                   /\ FirstCollapse = 0 => joins'[A].otherFilter = joins[A].otherFilter ]_vars

\* pushSelectExprs has returned without error
Projected == pc \in {"having", "order", "build", "done"}

\* the field tuple is of the column's table and either carries the column's
\* name or is the column itself under a synthesized alias
Names(tuple, col) ==
    /\ tuple.referTables = <<col.t>>
    /\ tuple.field = col.c \/ tuple.expr.e = col

\* the Comparison c of join A addresses, in A's children, fields naming the
\* two columns of the equality e
ComparesKey(A, c, e) ==
    LET o == Oriented(e, A)
    IN  /\ c.Operator = "="
        /\ c.Exchange = (o # e)
        /\ c.Left >= 0 /\ c.Left < Len(ChildFields(joins[A].Left))
        /\ c.Right >= 0 /\ c.Right < Len(ChildFields(joins[A].Right))
        /\ Names(ChildFields(joins[A].Left)[c.Left + 1], o.left)
        /\ Names(ChildFields(joins[A].Right)[c.Right + 1], o.right)

\* the equality e is between a table of the left and a table of the right
\* child of join A
Across(A, e) ==
    \/ e.left.t \in ChildTables(joins[A].Left) /\ e.right.t \in ChildTables(joins[A].Right)
    \/ e.left.t \in ChildTables(joins[A].Right) /\ e.right.t \in ChildTables(joins[A].Left)

\* after pushSelectExprs: a WHERE equality across the children of a LEFT
\* JOIN A of the tree is in A.otherFilter and is a Comparison with operator
\* "=" of A.CmpFilter; A's ON clause, joinOn, LeftKeys and RightKeys are the
\* keys of the ON clause A was built with, one key per joinOn entry.
LeftJoinEquality ==
    Projected =>
        \A A \in TreeJoins(joins, root) :
            joins[A].IsLeftJoin =>
                /\ joins[A].On = ExprsOf(joins[A].joinOn)
                /\ Len(joins[A].joinOn) <= 1
                /\ Len(joins[A].LeftKeys) = Len(joins[A].joinOn)
                /\ Len(joins[A].RightKeys) = Len(joins[A].joinOn)
                /\ \A k \in 1..Len(eqIn) :
                      Across(A, eqIn[k]) =>
                          /\ Contains(joins[A].otherFilter, eqIn[k].expr)
                          /\ \E i \in 1..Len(joins[A].CmpFilter) :
                                ComparesKey(A, joins[A].CmpFilter[i], eqIn[k])

\* C16: an equality that pushEqualCmpr leaves on a JoinNode A which does not
\* collapse is appended to A.joinOn, oriented left-child column / right-child
\* column, and to A's ON clause when A has one, if A is no LEFT JOIN; on a
\* LEFT JOIN it never enters A.joinOn, LeftKeys, RightKeys or the ON clause
\* but A.otherFilter, and after pushSelectExprs it is a Comparison with
\* operator "=" of A.CmpFilter.
C16_EqualityPlaced == EqualRecorded /\ []LeftJoinEquality

\* a LEFT JOIN with an ON key took a WHERE equality on other columns: one join
\* key, one Comparison with operator "="
C16_Witness ==
    /\ Projected
    /\ \E A \in TreeJoins(joins, root) :
          /\ joins[A].IsLeftJoin
          /\ Len(joins[A].LeftKeys) = 1
          /\ Len(eqIn) >= 1
          /\ Across(A, eqIn[1])
          /\ eqIn[1].expr # joins[A].joinOn[1].expr
          /\ Len(joins[A].CmpFilter) = 1
          /\ joins[A].CmpFilter[1].Operator = "="

\* a join with an ON clause that is no LEFT JOIN took a WHERE equality as its
\* second key, written the other way round, and into its ON clause
C16_SecondKey ==
    /\ Equalled
    /\ \E A \in TreeJoins(joins, root) :
          /\ joins[A].hasJoinExpr
          /\ ~joins[A].IsLeftJoin
          /\ Len(joins[A].joinOn) = 2
          /\ Len(joins[A].On) = 2
          /\ Len(eqIn) = 1
          /\ joins[A].joinOn[2].left = eqIn[1].right

\* the step of pushSelectExprs
Selecting == pc = "select" /\ pc' # "select"

\* the residual predicates handleOthers hands to pushOtherFilters at join A, in
\* the order it does: those of the ON clause, then otherFilter
ResidualsOf(A) ==
    (IF joins[A].otherJoinOn.set THEN joins[A].otherJoinOn.others ELSE <<>>)
    \o joins[A].otherFilter

\* the tables of l are all in the left child of A, those of r all in the right
Straight(A, l, r) ==
    /\ \A i \in 1..Len(getTbInExpr(l)) : getTbInExpr(l)[i] \in ChildTables(joins[A].Left)
    /\ \A i \in 1..Len(getTbInExpr(r)) : getTbInExpr(r)[i] \in ChildTables(joins[A].Right)

\* a comparison between the two children of A
Supported(A, e) == e.k = "cmp" /\ (Straight(A, e.l, e.r) \/ Straight(A, e.r, e.l))

\* number of residuals of A before the first that is not Supported
SupportedPrefix(A) ==
    LET R == ResidualsOf(A)
        bad == {i \in 1..Len(R) : ~Supported(A, R[i])}
    IN  IF bad = {} THEN Len(R) ELSE (CHOOSE i \in bad : \A k \in bad : i <= k) - 1

\* the field at position index (from 0) of fields projects the operand x; with
\* byName, a field of x's table bearing x's column name counts as well
Projects(fields, index, x, byName) ==
    /\ index >= 0 /\ index < Len(fields)
    /\ \/ fields[index + 1].expr.e = x
       \/ /\ byName
          /\ x.k = "col"
          /\ fields[index + 1].referTables = <<x.t>>
          /\ fields[index + 1].field = x.c

\* the Comparison c that pushOtherFilters made of the residual e at join A
ComparisonOf(A, c, e, byName) ==
    LET straight == Straight(A, e.l, e.r)
        lop == IF straight THEN e.l ELSE e.r
        rop == IF straight THEN e.r ELSE e.l
        lf == IF IsJoin(joins[A].Left) THEN joins'[joins[A].Left].fields
              ELSE merges'[joins[A].Left].fields
        rf == IF IsJoin(joins[A].Right) THEN joins'[joins[A].Right].fields
              ELSE merges'[joins[A].Right].fields
    IN  /\ c.Operator = e.op
        /\ c.Exchange = ~straight
        /\ Projects(lf, c.Left, lop, byName)
        /\ Projects(rf, c.Right, rop, byName)

\* what a step of pushSelectExprs makes of the residuals of the joins
OtherFiltersPushed(byName) ==
    \A A \in TreeJoins(joins, root) :
        /\ Len(joins'[A].CmpFilter) <= SupportedPrefix(A)
        /\ SupportedPrefix(A) < Len(ResidualsOf(A)) => err' # NoErr
        /\ err' = NoErr =>
              /\ Len(joins'[A].CmpFilter) = Len(ResidualsOf(A))
              /\ \A i \in 1..Len(ResidualsOf(A)) :
                    ComparisonOf(A, joins'[A].CmpFilter[i], ResidualsOf(A)[i], byName)

\* C17: pushOtherFilters appends, for a residual comparison A op B between the
\* children of a JoinNode, one Comparison whose Left is the index of the
\* left-child operand in the left child's fields, whose Right is the index of
\* the right-child operand in the right child's fields, with the operator and
\* Exchange telling whether A was the right-child operand; a residual of
\* another shape is an error and CmpFilter does not grow.
C17_OtherFilters == [][Selecting => OtherFiltersPushed(FALSE)]_vars

\* the same, a field counting as the operand when it is of the operand's
\* table and bears its column name
C17_OtherFiltersByName == [][Selecting => OtherFiltersPushed(TRUE)]_vars

\* a crossed and a straight residual became two Comparisons of the root join
C17_Compared ==
    /\ Projected
    /\ IsJoin(root)
    /\ Len(joins[root].CmpFilter) = 2
    /\ joins[root].CmpFilter[1].Exchange
    /\ ~joins[root].CmpFilter[2].Exchange

\* pushSelectExprs refused a residual that is no comparison between the
\* children
C17_Refused ==
    /\ pc = "failed"
    /\ err = ClauseErr
    /\ IsJoin(root)
    /\ joins[root].CmpFilter = <<>>
    /\ Len(joins[root].otherFilter) = 2

\* t1.b AS a is selected and the residual t1.a = t2.b addresses it
C17_AliasTaken ==
    /\ Projected
    /\ IsJoin(root)
    /\ fieldsIn = <<SelAs("t1", "b", "a")>>
    /\ joins[root].otherFilter = <<Cmp("=", Col("t1", "a"), Col("t2", "b"))>>
    /\ Len(joins[root].CmpFilter) = 1
    /\ joins[root].CmpFilter[1].Left = 0
    /\ merges[joins[root].Left].fields[1] = SelAs("t1", "b", "a")

\* the aliases setOtherJoin and pushOtherFilter synthesize
TmpAliases == {TmpcAlias(n) : n \in 0..2 * MaxClauses} \cup {TmpoAlias(n) : n \in 0..2 * MaxClauses}

\* no two fields of the list bear the same synthesized alias
UniqueAliases(fields) ==
    \A i, k \in 1..Len(fields) :
        i # k /\ fields[i].field \in TmpAliases => fields[i].field # fields[k].field

\* the MergeNodes under the root
TreeLeaves ==
    IF IsMerge(root) THEN {root}
    ELSE {m \in MergeIds : \E j \in TreeJoins(joins, root) :
                               joins[j].Left = m \/ joins[j].Right = m}

\* C18: after pushSelectExprs on a tree of nested joins, each numbering its
\* tmpc_ aliases from 0 in setOtherJoin and its tmpo_ aliases from 0 in
\* handleOthers, no MergeNode's field list has two columns with the same
\* tmpc_ or tmpo_ alias.
C18_UniqueAliases ==
    Projected => \A m \in TreeLeaves : UniqueAliases(merges[m].fields)

\* the same for a tree with one JoinNode
C18_UniqueUnnested ==
    Projected /\ Cardinality(TreeJoins(joins, root)) = 1 =>
        \A m \in TreeLeaves : UniqueAliases(merges[m].fields)

\* a nested join and the root each appended t1.b as tmpo_0
C18_TmpoTwice ==
    /\ Projected
    /\ \E m \in TreeLeaves : \E i, k \in 1..Len(merges[m].fields) :
          /\ i # k
          /\ merges[m].fields[i].field = TmpoAlias(0)
          /\ merges[m].fields[k].field = TmpoAlias(0)

\* two nested LEFT JOINs each appended a left-side ON predicate as tmpc_0
C18_TmpcTwice ==
    /\ Projected
    /\ \E m \in TreeLeaves : \E i, k \in 1..Len(merges[m].fields) :
          /\ i # k
          /\ merges[m].fields[i].field = TmpcAlias(0)
          /\ merges[m].fields[k].field = TmpcAlias(0)

====
